---------------------------- MODULE Spec2Model ----------------------------
(***************************************************************************)
(* Model of the bid-document pipeline: the structure recogniser            *)
(* (format_parser.py), the type classifier and the parse entry points      *)
(* (tender_parser.py), the matching of the requirements                    *)
(* (requirements_parser.py), the matcher of the registry                   *)
(* (section_matcher.py), the fusion engine (template_filler.py) and the    *)
(* handlers of the application with its uploads, tables and session        *)
(* (app.py).                                                               *)
(*                                                                         *)
(* Text.  A Python str is a sequence of characters; a character is a       *)
(* one-element string.  ASCII characters stand for themselves ("C", "[",   *)
(* " "); any other character is written "uXXXX", its code point in hex     *)
(* ("u6295" is the character 投).  Every literal carries the original      *)
(* text in a comment.                                                      *)
(***************************************************************************)
EXTENDS Integers, Sequences, FiniteSets, TLC

VARIABLES
    doc,        \* format component: the .docx handed to parse_format_template
    probe,      \* format component: a (text, paragraph) pair handed to _match_heading
    fmt_out,    \* format component: what parse_format_template returned
    hd_out,     \* format component: what _match_heading / _cn_to_int returned
    cls_text,   \* classifier: the candidate text
    cls_out,    \* classifier: what classify_section returned for cls_text
    cls_prev,   \* classifier: the result for the text before a keyword was added
    tfile,      \* entry points: the uploaded file handed to a parse entry point
    parse_out,  \* entry points: what the entry point gave back
    disk,       \* application: the files of the upload and output folders
    clock,      \* application: the second of the wall clock
    registry,   \* application: the tables of attachments, persons and performances
    bids,       \* application: the table of bid projects with their sections and links
    session,    \* application: the session cookie of the client
    request,    \* application: the request in flight between two commits
    response,   \* application: what the last handler did
    budget,     \* application: the requests the client has left
    para,       \* fusion: the runs of the paragraph being substituted
    fill_out,   \* fusion: the runs after _replace_paragraph_placeholders
    resolved,   \* fusion: a key handed to _resolve_placeholder, and its value
    job,        \* fusion: what generate_filled_document is called with
    filled,     \* fusion: the document fill_template works on
    todo,       \* fusion: the sorted sections the loop of fill_template has yet to handle
    handled,    \* fusion: the section handled last, and the body before it was
    m_probe,    \* matcher: the arguments of a ranking called on its own
    m_out,      \* matcher: what the last call returned
    calls,      \* matcher: the calls of bid_auto_match so far
    fmt_sections,           \* requirements: the sections of the format template
    section_requirements,   \* requirements: what match_requirements_to_sections returned
    t_probe,    \* fill steps: the arguments of a fill step called on its own
    t_out       \* fill steps: the table or the body the step left

fmtVars == <<doc, probe, fmt_out, hd_out>>
clsVars == <<cls_text, cls_out, cls_prev>>
tndVars == <<tfile, parse_out>>
appVars == <<disk, clock, registry, bids, session, request, response, budget>>
fillVars == <<para, fill_out, resolved>>
fusVars == <<job, filled, todo, handled>>
matVars == <<m_probe, m_out, calls>>
reqVars == <<fmt_sections, section_requirements>>
stpVars == <<t_probe, t_out>>
vars == <<doc, probe, fmt_out, hd_out, cls_text, cls_out, cls_prev,
          tfile, parse_out, disk, clock, registry, bids, session, request, response,
          budget, para, fill_out, resolved, job, filled, todo, handled,
          m_probe, m_out, calls, fmt_sections, section_requirements, t_probe, t_out>>

\* Python's None, where a record may stand instead
None == [none |-> TRUE]

(***************************************************************************)
(* Python str helpers                                                      *)
(***************************************************************************)
Min2(a, b) == IF a <= b THEN a ELSE b
Max2(a, b) == IF a >= b THEN a ELSE b

\* The characters re's \s (of a str pattern) and str.strip() treat as white
\* space, str.isspace(): the tab, the line feed, the other ASCII controls
\* u000b to u000d and u001c to u001f, the space, u0085, u00a0 and the Unicode
\* spaces, U+3000, the ideographic space, among them.
NEWLINE == "u000a"
WS == {"u0009", NEWLINE, "u000b", "u000c", "u000d", "u001c", "u001d", "u001e",
       "u001f", " ", "u0085", "u00a0", "u1680", "u2000", "u2001", "u2002",
       "u2003", "u2004", "u2005", "u2006", "u2007", "u2008", "u2009", "u200a",
       "u2028", "u2029", "u202f", "u205f", "u3000"}
CN_DIGITS == {"u4e00", "u4e8c", "u4e09", "u56db", "u4e94", "u516d", "u4e03",
              "u516b", "u4e5d", "u5341", "u767e"}     \* 一二三四五六七八九十百
HEX == {"0", "1", "2", "3", "4", "5", "6", "7", "8", "9", "a", "b", "c", "d", "e", "f"}

\* The decimal digits of Unicode, the characters \d (of a str pattern)
\* matches and int() reads: runs of ten characters, the digits 0 to 9 of a
\* script in order.  The ASCII digits are the first run.
DIGIT_RUNS == <<
    <<"0", "1", "2", "3", "4", "5", "6", "7", "8", "9">>,
    <<"u0660", "u0661", "u0662", "u0663", "u0664", "u0665", "u0666", "u0667", "u0668", "u0669">>,
    <<"u06f0", "u06f1", "u06f2", "u06f3", "u06f4", "u06f5", "u06f6", "u06f7", "u06f8", "u06f9">>,
    <<"u07c0", "u07c1", "u07c2", "u07c3", "u07c4", "u07c5", "u07c6", "u07c7", "u07c8", "u07c9">>,
    <<"u0966", "u0967", "u0968", "u0969", "u096a", "u096b", "u096c", "u096d", "u096e", "u096f">>,
    <<"u09e6", "u09e7", "u09e8", "u09e9", "u09ea", "u09eb", "u09ec", "u09ed", "u09ee", "u09ef">>,
    <<"u0a66", "u0a67", "u0a68", "u0a69", "u0a6a", "u0a6b", "u0a6c", "u0a6d", "u0a6e", "u0a6f">>,
    <<"u0ae6", "u0ae7", "u0ae8", "u0ae9", "u0aea", "u0aeb", "u0aec", "u0aed", "u0aee", "u0aef">>,
    <<"u0b66", "u0b67", "u0b68", "u0b69", "u0b6a", "u0b6b", "u0b6c", "u0b6d", "u0b6e", "u0b6f">>,
    <<"u0be6", "u0be7", "u0be8", "u0be9", "u0bea", "u0beb", "u0bec", "u0bed", "u0bee", "u0bef">>,
    <<"u0c66", "u0c67", "u0c68", "u0c69", "u0c6a", "u0c6b", "u0c6c", "u0c6d", "u0c6e", "u0c6f">>,
    <<"u0ce6", "u0ce7", "u0ce8", "u0ce9", "u0cea", "u0ceb", "u0cec", "u0ced", "u0cee", "u0cef">>,
    <<"u0d66", "u0d67", "u0d68", "u0d69", "u0d6a", "u0d6b", "u0d6c", "u0d6d", "u0d6e", "u0d6f">>,
    <<"u0de6", "u0de7", "u0de8", "u0de9", "u0dea", "u0deb", "u0dec", "u0ded", "u0dee", "u0def">>,
    <<"u0e50", "u0e51", "u0e52", "u0e53", "u0e54", "u0e55", "u0e56", "u0e57", "u0e58", "u0e59">>,
    <<"u0ed0", "u0ed1", "u0ed2", "u0ed3", "u0ed4", "u0ed5", "u0ed6", "u0ed7", "u0ed8", "u0ed9">>,
    <<"u0f20", "u0f21", "u0f22", "u0f23", "u0f24", "u0f25", "u0f26", "u0f27", "u0f28", "u0f29">>,
    <<"u1040", "u1041", "u1042", "u1043", "u1044", "u1045", "u1046", "u1047", "u1048", "u1049">>,
    <<"u1090", "u1091", "u1092", "u1093", "u1094", "u1095", "u1096", "u1097", "u1098", "u1099">>,
    <<"u17e0", "u17e1", "u17e2", "u17e3", "u17e4", "u17e5", "u17e6", "u17e7", "u17e8", "u17e9">>,
    <<"u1810", "u1811", "u1812", "u1813", "u1814", "u1815", "u1816", "u1817", "u1818", "u1819">>,
    <<"u1946", "u1947", "u1948", "u1949", "u194a", "u194b", "u194c", "u194d", "u194e", "u194f">>,
    <<"u19d0", "u19d1", "u19d2", "u19d3", "u19d4", "u19d5", "u19d6", "u19d7", "u19d8", "u19d9">>,
    <<"u1a80", "u1a81", "u1a82", "u1a83", "u1a84", "u1a85", "u1a86", "u1a87", "u1a88", "u1a89">>,
    <<"u1a90", "u1a91", "u1a92", "u1a93", "u1a94", "u1a95", "u1a96", "u1a97", "u1a98", "u1a99">>,
    <<"u1b50", "u1b51", "u1b52", "u1b53", "u1b54", "u1b55", "u1b56", "u1b57", "u1b58", "u1b59">>,
    <<"u1bb0", "u1bb1", "u1bb2", "u1bb3", "u1bb4", "u1bb5", "u1bb6", "u1bb7", "u1bb8", "u1bb9">>,
    <<"u1c40", "u1c41", "u1c42", "u1c43", "u1c44", "u1c45", "u1c46", "u1c47", "u1c48", "u1c49">>,
    <<"u1c50", "u1c51", "u1c52", "u1c53", "u1c54", "u1c55", "u1c56", "u1c57", "u1c58", "u1c59">>,
    <<"ua620", "ua621", "ua622", "ua623", "ua624", "ua625", "ua626", "ua627", "ua628", "ua629">>,
    <<"ua8d0", "ua8d1", "ua8d2", "ua8d3", "ua8d4", "ua8d5", "ua8d6", "ua8d7", "ua8d8", "ua8d9">>,
    <<"ua900", "ua901", "ua902", "ua903", "ua904", "ua905", "ua906", "ua907", "ua908", "ua909">>,
    <<"ua9d0", "ua9d1", "ua9d2", "ua9d3", "ua9d4", "ua9d5", "ua9d6", "ua9d7", "ua9d8", "ua9d9">>,
    <<"ua9f0", "ua9f1", "ua9f2", "ua9f3", "ua9f4", "ua9f5", "ua9f6", "ua9f7", "ua9f8", "ua9f9">>,
    <<"uaa50", "uaa51", "uaa52", "uaa53", "uaa54", "uaa55", "uaa56", "uaa57", "uaa58", "uaa59">>,
    <<"uabf0", "uabf1", "uabf2", "uabf3", "uabf4", "uabf5", "uabf6", "uabf7", "uabf8", "uabf9">>,
    <<"uff10", "uff11", "uff12", "uff13", "uff14", "uff15", "uff16", "uff17", "uff18", "uff19">>,
    <<"u104a0", "u104a1", "u104a2", "u104a3", "u104a4", "u104a5", "u104a6", "u104a7", "u104a8", "u104a9">>,
    <<"u10d30", "u10d31", "u10d32", "u10d33", "u10d34", "u10d35", "u10d36", "u10d37", "u10d38", "u10d39">>,
    <<"u11066", "u11067", "u11068", "u11069", "u1106a", "u1106b", "u1106c", "u1106d", "u1106e", "u1106f">>,
    <<"u110f0", "u110f1", "u110f2", "u110f3", "u110f4", "u110f5", "u110f6", "u110f7", "u110f8", "u110f9">>,
    <<"u11136", "u11137", "u11138", "u11139", "u1113a", "u1113b", "u1113c", "u1113d", "u1113e", "u1113f">>,
    <<"u111d0", "u111d1", "u111d2", "u111d3", "u111d4", "u111d5", "u111d6", "u111d7", "u111d8", "u111d9">>,
    <<"u112f0", "u112f1", "u112f2", "u112f3", "u112f4", "u112f5", "u112f6", "u112f7", "u112f8", "u112f9">>,
    <<"u11450", "u11451", "u11452", "u11453", "u11454", "u11455", "u11456", "u11457", "u11458", "u11459">>,
    <<"u114d0", "u114d1", "u114d2", "u114d3", "u114d4", "u114d5", "u114d6", "u114d7", "u114d8", "u114d9">>,
    <<"u11650", "u11651", "u11652", "u11653", "u11654", "u11655", "u11656", "u11657", "u11658", "u11659">>,
    <<"u116c0", "u116c1", "u116c2", "u116c3", "u116c4", "u116c5", "u116c6", "u116c7", "u116c8", "u116c9">>,
    <<"u11730", "u11731", "u11732", "u11733", "u11734", "u11735", "u11736", "u11737", "u11738", "u11739">>,
    <<"u118e0", "u118e1", "u118e2", "u118e3", "u118e4", "u118e5", "u118e6", "u118e7", "u118e8", "u118e9">>,
    <<"u11950", "u11951", "u11952", "u11953", "u11954", "u11955", "u11956", "u11957", "u11958", "u11959">>,
    <<"u11c50", "u11c51", "u11c52", "u11c53", "u11c54", "u11c55", "u11c56", "u11c57", "u11c58", "u11c59">>,
    <<"u11d50", "u11d51", "u11d52", "u11d53", "u11d54", "u11d55", "u11d56", "u11d57", "u11d58", "u11d59">>,
    <<"u11da0", "u11da1", "u11da2", "u11da3", "u11da4", "u11da5", "u11da6", "u11da7", "u11da8", "u11da9">>,
    <<"u16a60", "u16a61", "u16a62", "u16a63", "u16a64", "u16a65", "u16a66", "u16a67", "u16a68", "u16a69">>,
    <<"u16ac0", "u16ac1", "u16ac2", "u16ac3", "u16ac4", "u16ac5", "u16ac6", "u16ac7", "u16ac8", "u16ac9">>,
    <<"u16b50", "u16b51", "u16b52", "u16b53", "u16b54", "u16b55", "u16b56", "u16b57", "u16b58", "u16b59">>,
    <<"u1d7ce", "u1d7cf", "u1d7d0", "u1d7d1", "u1d7d2", "u1d7d3", "u1d7d4", "u1d7d5", "u1d7d6", "u1d7d7">>,
    <<"u1d7d8", "u1d7d9", "u1d7da", "u1d7db", "u1d7dc", "u1d7dd", "u1d7de", "u1d7df", "u1d7e0", "u1d7e1">>,
    <<"u1d7e2", "u1d7e3", "u1d7e4", "u1d7e5", "u1d7e6", "u1d7e7", "u1d7e8", "u1d7e9", "u1d7ea", "u1d7eb">>,
    <<"u1d7ec", "u1d7ed", "u1d7ee", "u1d7ef", "u1d7f0", "u1d7f1", "u1d7f2", "u1d7f3", "u1d7f4", "u1d7f5">>,
    <<"u1d7f6", "u1d7f7", "u1d7f8", "u1d7f9", "u1d7fa", "u1d7fb", "u1d7fc", "u1d7fd", "u1d7fe", "u1d7ff">>,
    <<"u1e140", "u1e141", "u1e142", "u1e143", "u1e144", "u1e145", "u1e146", "u1e147", "u1e148", "u1e149">>,
    <<"u1e2f0", "u1e2f1", "u1e2f2", "u1e2f3", "u1e2f4", "u1e2f5", "u1e2f6", "u1e2f7", "u1e2f8", "u1e2f9">>,
    <<"u1e950", "u1e951", "u1e952", "u1e953", "u1e954", "u1e955", "u1e956", "u1e957", "u1e958", "u1e959">>,
    <<"u1fbf0", "u1fbf1", "u1fbf2", "u1fbf3", "u1fbf4", "u1fbf5", "u1fbf6", "u1fbf7", "u1fbf8", "u1fbf9">>
>>
ASCII_DIGITS == {DIGIT_RUNS[1][k] : k \in 1..10}
DIGITS == {DIGIT_RUNS[r][k] : r \in 1..Len(DIGIT_RUNS), k \in 1..10}
SEPS == {"u3001", ".", "uff0e"}                       \* 、 . ．
LPAREN == {"uff08", "("}                              \* （ (
RPAREN == {"uff09", ")"}                              \* ） )
COLONS == {"uff1a", ":"}                              \* ： :

UPPER == <<"A","B","C","D","E","F","G","H","I","J","K","L","M",
           "N","O","P","Q","R","S","T","U","V","W","X","Y","Z">>
LOWER == <<"a","b","c","d","e","f","g","h","i","j","k","l","m",
           "n","o","p","q","r","s","t","u","v","w","x","y","z">>

UpperSet == {UPPER[i] : i \in 1..Len(UPPER)}
LowerSet == {LOWER[i] : i \in 1..Len(LOWER)}

\* `sub in s`
Contains(s, sub) ==
    \/ Len(sub) = 0
    \/ \E i \in 1..(Len(s) - Len(sub) + 1) :
           \A j \in 1..Len(sub) : s[i + j - 1] = sub[j]

\* str.startswith
StartsWith(s, pre) == Len(pre) <= Len(s) /\ SubSeq(s, 1, Len(pre)) = pre

\* First index j >= i with j > Len(s) or s[j] \notin class (a greedy class*).
RECURSIVE SkipClass(_, _, _)
SkipClass(s, i, class) ==
    IF i > Len(s) \/ s[i] \notin class THEN i ELSE SkipClass(s, i + 1, class)

\* Last index j <= i with j < 1 or s[j] \notin class.
RECURSIVE SkipClassBack(_, _, _)
SkipClassBack(s, i, class) ==
    IF i < 1 \/ s[i] \notin class THEN i ELSE SkipClassBack(s, i - 1, class)

\* str.strip()
Strip(s) ==
    LET a == SkipClass(s, 1, WS)
        b == SkipClassBack(s, Len(s), WS)
    IN IF a > b THEN <<>> ELSE SubSeq(s, a, b)

\* The index of the first line feed at index i or later, the index after the
\* text when there is none: where a run of `.` that starts at i ends at the
\* latest
RECURSIVE LineEnd(_, _)
LineEnd(s, i) == IF i > Len(s) \/ s[i] = NEWLINE THEN i ELSE LineEnd(s, i + 1)

\* \s*(.+) from index i on: white space, then a character that is no line
\* feed.  The index (.+) starts at under the greedy reading (the last such
\* index the white space reaches), 0 when there is none.
DotStart(s, i) ==
    LET starts == {k \in i..Len(s) : s[k] # NEWLINE /\ \A m \in i..(k - 1) : s[m] \in WS}
    IN IF starts = {} THEN 0 ELSE CHOOSE k \in starts : \A l \in starts : l <= k

\* str.split(sep), sep one character
RECURSIVE SplitOn(_, _)
SplitOn(s, sep) ==
    IF \A i \in 1..Len(s) : s[i] # sep THEN <<s>>
    ELSE LET i == CHOOSE k \in 1..Len(s) : s[k] = sep /\ \A j \in 1..(k - 1) : s[j] # sep
         IN <<SubSeq(s, 1, i - 1)>> \o SplitOn(SubSeq(s, i + 1, Len(s)), sep)

RECURSIVE Concat(_)
Concat(ss) == IF Len(ss) = 0 THEN <<>> ELSE Head(ss) \o Concat(Tail(ss))

\* chr(n) as the model names a character: a printable ASCII character but the
\* grave accent stands for itself, any other is "u" and its code point in four or more hex digits
HEX_DIGITS == <<"0", "1", "2", "3", "4", "5", "6", "7", "8", "9", "a", "b", "c", "d", "e", "f">>
PRINTABLE == <<
    " ", "!", "\"", "#", "$", "%", "&", "'", "(", ")", "*", "+", ",", "-", ".", "/", "0", "1",
    "2", "3", "4", "5", "6", "7", "8", "9", ":", ";", "<", "=", ">", "?", "@", "A", "B", "C",
    "D", "E", "F", "G", "H", "I", "J", "K", "L", "M", "N", "O", "P", "Q", "R", "S", "T", "U",
    "V", "W", "X", "Y", "Z", "[", "\\", "]", "^", "_", "u0060", "a", "b", "c", "d", "e", "f",
    "g", "h", "i", "j", "k", "l", "m", "n", "o", "p", "q", "r", "s", "t", "u", "v", "w", "x",
    "y", "z", "{", "|", "}", "~"
>>
RECURSIVE HexOf(_)
HexOf(n) == IF n < 16 THEN HEX_DIGITS[n + 1] ELSE HexOf(n \div 16) \o HEX_DIGITS[(n % 16) + 1]
Chr(n) ==
    IF n \in 32..126 THEN PRINTABLE[n - 31]
    ELSE IF n < 16 THEN "u000" \o HexOf(n)
    ELSE IF n < 256 THEN "u00" \o HexOf(n)
    ELSE IF n < 4096 THEN "u0" \o HexOf(n)
    ELSE "u" \o HexOf(n)
\* The characters of the code points of ranges, two numbers each (first, last)
CharsOf(ranges) ==
    UNION {{Chr(n) : n \in ranges[2 * k - 1]..ranges[2 * k]} : k \in 1..(Len(ranges) \div 2)}

\* The characters str.lower() maps to one other character (Unicode 14.0.0), as
\* runs of code points, four numbers each (first, last, step, offset): the
\* character of code point n of a run is mapped to the one of n + offset.  U+03A3 and U+0130 are
\* mapped by LowerAt.
LOWER_RUNS == <<
    65, 90, 1, 32, 192, 214, 1, 32, 216, 222, 1, 32, 256, 302, 2, 1, 306, 310, 2, 1, 313, 327,
    2, 1, 330, 374, 2, 1, 376, 376, 1, -121, 377, 381, 2, 1, 385, 385, 1, 210, 386, 388, 2, 1,
    390, 390, 1, 206, 391, 391, 1, 1, 393, 394, 1, 205, 395, 395, 1, 1, 398, 398, 1, 79, 399,
    399, 1, 202, 400, 400, 1, 203, 401, 401, 1, 1, 403, 403, 1, 205, 404, 404, 1, 207, 406, 406,
    1, 211, 407, 407, 1, 209, 408, 408, 1, 1, 412, 412, 1, 211, 413, 413, 1, 213, 415, 415, 1,
    214, 416, 420, 2, 1, 422, 422, 1, 218, 423, 423, 1, 1, 425, 425, 1, 218, 428, 428, 1, 1,
    430, 430, 1, 218, 431, 431, 1, 1, 433, 434, 1, 217, 435, 437, 2, 1, 439, 439, 1, 219, 440,
    440, 1, 1, 444, 444, 1, 1, 452, 452, 1, 2, 453, 453, 1, 1, 455, 455, 1, 2, 456, 456, 1, 1,
    458, 458, 1, 2, 459, 475, 2, 1, 478, 494, 2, 1, 497, 497, 1, 2, 498, 500, 2, 1, 502, 502, 1,
    -97, 503, 503, 1, -56, 504, 542, 2, 1, 544, 544, 1, -130, 546, 562, 2, 1, 570, 570, 1,
    10795, 571, 571, 1, 1, 573, 573, 1, -163, 574, 574, 1, 10792, 577, 577, 1, 1, 579, 579, 1,
    -195, 580, 580, 1, 69, 581, 581, 1, 71, 582, 590, 2, 1, 880, 882, 2, 1, 886, 886, 1, 1, 895,
    895, 1, 116, 902, 902, 1, 38, 904, 906, 1, 37, 908, 908, 1, 64, 910, 911, 1, 63, 913, 929,
    1, 32, 932, 939, 1, 32, 975, 975, 1, 8, 984, 1006, 2, 1, 1012, 1012, 1, -60, 1015, 1015, 1,
    1, 1017, 1017, 1, -7, 1018, 1018, 1, 1, 1021, 1023, 1, -130, 1024, 1039, 1, 80, 1040, 1071,
    1, 32, 1120, 1152, 2, 1, 1162, 1214, 2, 1, 1216, 1216, 1, 15, 1217, 1229, 2, 1, 1232, 1326,
    2, 1, 1329, 1366, 1, 48, 4256, 4293, 1, 7264, 4295, 4295, 1, 7264, 4301, 4301, 1, 7264,
    5024, 5103, 1, 38864, 5104, 5109, 1, 8, 7312, 7354, 1, -3008, 7357, 7359, 1, -3008, 7680,
    7828, 2, 1, 7838, 7838, 1, -7615, 7840, 7934, 2, 1, 7944, 7951, 1, -8, 7960, 7965, 1, -8,
    7976, 7983, 1, -8, 7992, 7999, 1, -8, 8008, 8013, 1, -8, 8025, 8031, 2, -8, 8040, 8047, 1,
    -8, 8072, 8079, 1, -8, 8088, 8095, 1, -8, 8104, 8111, 1, -8, 8120, 8121, 1, -8, 8122, 8123,
    1, -74, 8124, 8124, 1, -9, 8136, 8139, 1, -86, 8140, 8140, 1, -9, 8152, 8153, 1, -8, 8154,
    8155, 1, -100, 8168, 8169, 1, -8, 8170, 8171, 1, -112, 8172, 8172, 1, -7, 8184, 8185, 1,
    -128, 8186, 8187, 1, -126, 8188, 8188, 1, -9, 8486, 8486, 1, -7517, 8490, 8490, 1, -8383,
    8491, 8491, 1, -8262, 8498, 8498, 1, 28, 8544, 8559, 1, 16, 8579, 8579, 1, 1, 9398, 9423, 1,
    26, 11264, 11311, 1, 48, 11360, 11360, 1, 1, 11362, 11362, 1, -10743, 11363, 11363, 1,
    -3814, 11364, 11364, 1, -10727, 11367, 11371, 2, 1, 11373, 11373, 1, -10780, 11374, 11374,
    1, -10749, 11375, 11375, 1, -10783, 11376, 11376, 1, -10782, 11378, 11378, 1, 1, 11381,
    11381, 1, 1, 11390, 11391, 1, -10815, 11392, 11490, 2, 1, 11499, 11501, 2, 1, 11506, 11506,
    1, 1, 42560, 42604, 2, 1, 42624, 42650, 2, 1, 42786, 42798, 2, 1, 42802, 42862, 2, 1, 42873,
    42875, 2, 1, 42877, 42877, 1, -35332, 42878, 42886, 2, 1, 42891, 42891, 1, 1, 42893, 42893,
    1, -42280, 42896, 42898, 2, 1, 42902, 42920, 2, 1, 42922, 42922, 1, -42308, 42923, 42923, 1,
    -42319, 42924, 42924, 1, -42315, 42925, 42925, 1, -42305, 42926, 42926, 1, -42308, 42928,
    42928, 1, -42258, 42929, 42929, 1, -42282, 42930, 42930, 1, -42261, 42931, 42931, 1, 928,
    42932, 42946, 2, 1, 42948, 42948, 1, -48, 42949, 42949, 1, -42307, 42950, 42950, 1, -35384,
    42951, 42953, 2, 1, 42960, 42960, 1, 1, 42966, 42968, 2, 1, 42997, 42997, 1, 1, 65313,
    65338, 1, 32, 66560, 66599, 1, 40, 66736, 66771, 1, 40, 66928, 66938, 1, 39, 66940, 66954,
    1, 39, 66956, 66962, 1, 39, 66964, 66965, 1, 39, 68736, 68786, 1, 64, 71840, 71871, 1, 32,
    93760, 93791, 1, 32, 125184, 125217, 1, 34
>>
\* The characters of run r: run r is the four numbers from LOWER_RUNS[4 * r - 3]
RunPairs(first, last, step, offset) ==
    {<<Chr(first + k * step), Chr(first + k * step + offset)>> : k \in 0..((last - first) \div step)}
LowerPairs ==
    UNION {RunPairs(LOWER_RUNS[4 * r - 3], LOWER_RUNS[4 * r - 2], LOWER_RUNS[4 * r - 1],
                    LOWER_RUNS[4 * r]) : r \in 1..(Len(LOWER_RUNS) \div 4)}
FunctionOf(pairs) == [c \in {p[1] : p \in pairs} |-> (CHOOSE p \in pairs : p[1] = c)[2]]
LowerOf == FunctionOf(LowerPairs)

\* The case-ignorable characters, and the cased characters that are not
\* case-ignorable, as ranges of code points, two numbers each (first, last):
\* the context of a final sigma
CASE_IGNORABLE_RANGES == <<
    39, 39, 46, 46, 58, 58, 94, 94, 96, 96, 168, 168, 173, 173, 175, 175, 180, 180, 183, 184,
    688, 879, 884, 885, 890, 890, 900, 901, 903, 903, 1155, 1161, 1369, 1369, 1375, 1375, 1425,
    1469, 1471, 1471, 1473, 1474, 1476, 1477, 1479, 1479, 1524, 1524, 1536, 1541, 1552, 1562,
    1564, 1564, 1600, 1600, 1611, 1631, 1648, 1648, 1750, 1757, 1759, 1768, 1770, 1773, 1807,
    1807, 1809, 1809, 1840, 1866, 1958, 1968, 2027, 2037, 2042, 2042, 2045, 2045, 2070, 2093,
    2137, 2139, 2184, 2184, 2192, 2193, 2200, 2207, 2249, 2306, 2362, 2362, 2364, 2364, 2369,
    2376, 2381, 2381, 2385, 2391, 2402, 2403, 2417, 2417, 2433, 2433, 2492, 2492, 2497, 2500,
    2509, 2509, 2530, 2531, 2558, 2558, 2561, 2562, 2620, 2620, 2625, 2626, 2631, 2632, 2635,
    2637, 2641, 2641, 2672, 2673, 2677, 2677, 2689, 2690, 2748, 2748, 2753, 2757, 2759, 2760,
    2765, 2765, 2786, 2787, 2810, 2815, 2817, 2817, 2876, 2876, 2879, 2879, 2881, 2884, 2893,
    2893, 2901, 2902, 2914, 2915, 2946, 2946, 3008, 3008, 3021, 3021, 3072, 3072, 3076, 3076,
    3132, 3132, 3134, 3136, 3142, 3144, 3146, 3149, 3157, 3158, 3170, 3171, 3201, 3201, 3260,
    3260, 3263, 3263, 3270, 3270, 3276, 3277, 3298, 3299, 3328, 3329, 3387, 3388, 3393, 3396,
    3405, 3405, 3426, 3427, 3457, 3457, 3530, 3530, 3538, 3540, 3542, 3542, 3633, 3633, 3636,
    3642, 3654, 3662, 3761, 3761, 3764, 3772, 3782, 3782, 3784, 3789, 3864, 3865, 3893, 3893,
    3895, 3895, 3897, 3897, 3953, 3966, 3968, 3972, 3974, 3975, 3981, 3991, 3993, 4028, 4038,
    4038, 4141, 4144, 4146, 4151, 4153, 4154, 4157, 4158, 4184, 4185, 4190, 4192, 4209, 4212,
    4226, 4226, 4229, 4230, 4237, 4237, 4253, 4253, 4348, 4348, 4957, 4959, 5906, 5908, 5938,
    5939, 5970, 5971, 6002, 6003, 6068, 6069, 6071, 6077, 6086, 6086, 6089, 6099, 6103, 6103,
    6109, 6109, 6155, 6159, 6211, 6211, 6277, 6278, 6313, 6313, 6432, 6434, 6439, 6440, 6450,
    6450, 6457, 6459, 6679, 6680, 6683, 6683, 6742, 6742, 6744, 6750, 6752, 6752, 6754, 6754,
    6757, 6764, 6771, 6780, 6783, 6783, 6823, 6823, 6832, 6862, 6912, 6915, 6964, 6964, 6966,
    6970, 6972, 6972, 6978, 6978, 7019, 7027, 7040, 7041, 7074, 7077, 7080, 7081, 7083, 7085,
    7142, 7142, 7144, 7145, 7149, 7149, 7151, 7153, 7212, 7219, 7222, 7223, 7288, 7293, 7376,
    7378, 7380, 7392, 7394, 7400, 7405, 7405, 7412, 7412, 7416, 7417, 7468, 7530, 7544, 7544,
    7579, 7679, 8125, 8125, 8127, 8129, 8141, 8143, 8157, 8159, 8173, 8175, 8189, 8190, 8203,
    8207, 8216, 8217, 8228, 8228, 8231, 8231, 8234, 8238, 8288, 8292, 8294, 8303, 8305, 8305,
    8319, 8319, 8336, 8348, 8400, 8432, 11388, 11389, 11503, 11505, 11631, 11631, 11647, 11647,
    11744, 11775, 11823, 11823, 12293, 12293, 12330, 12333, 12337, 12341, 12347, 12347, 12441,
    12446, 12540, 12542, 40981, 40981, 42232, 42237, 42508, 42508, 42607, 42610, 42612, 42621,
    42623, 42623, 42652, 42655, 42736, 42737, 42752, 42785, 42864, 42864, 42888, 42890, 42994,
    42996, 43000, 43001, 43010, 43010, 43014, 43014, 43019, 43019, 43045, 43046, 43052, 43052,
    43204, 43205, 43232, 43249, 43263, 43263, 43302, 43309, 43335, 43345, 43392, 43394, 43443,
    43443, 43446, 43449, 43452, 43453, 43471, 43471, 43493, 43494, 43561, 43566, 43569, 43570,
    43573, 43574, 43587, 43587, 43596, 43596, 43632, 43632, 43644, 43644, 43696, 43696, 43698,
    43700, 43703, 43704, 43710, 43711, 43713, 43713, 43741, 43741, 43756, 43757, 43763, 43764,
    43766, 43766, 43867, 43871, 43881, 43883, 44005, 44005, 44008, 44008, 44013, 44013, 64286,
    64286, 64434, 64450, 65024, 65039, 65043, 65043, 65056, 65071, 65106, 65106, 65109, 65109,
    65279, 65279, 65287, 65287, 65294, 65294, 65306, 65306, 65342, 65342, 65344, 65344, 65392,
    65392, 65438, 65439, 65507, 65507, 65529, 65531, 66045, 66045, 66272, 66272, 66422, 66426,
    67456, 67461, 67463, 67504, 67506, 67514, 68097, 68099, 68101, 68102, 68108, 68111, 68152,
    68154, 68159, 68159, 68325, 68326, 68900, 68903, 69291, 69292, 69446, 69456, 69506, 69509,
    69633, 69633, 69688, 69702, 69744, 69744, 69747, 69748, 69759, 69761, 69811, 69814, 69817,
    69818, 69821, 69821, 69826, 69826, 69837, 69837, 69888, 69890, 69927, 69931, 69933, 69940,
    70003, 70003, 70016, 70017, 70070, 70078, 70089, 70092, 70095, 70095, 70191, 70193, 70196,
    70196, 70198, 70199, 70206, 70206, 70367, 70367, 70371, 70378, 70400, 70401, 70459, 70460,
    70464, 70464, 70502, 70508, 70512, 70516, 70712, 70719, 70722, 70724, 70726, 70726, 70750,
    70750, 70835, 70840, 70842, 70842, 70847, 70848, 70850, 70851, 71090, 71093, 71100, 71101,
    71103, 71104, 71132, 71133, 71219, 71226, 71229, 71229, 71231, 71232, 71339, 71339, 71341,
    71341, 71344, 71349, 71351, 71351, 71453, 71455, 71458, 71461, 71463, 71467, 71727, 71735,
    71737, 71738, 71995, 71996, 71998, 71998, 72003, 72003, 72148, 72151, 72154, 72155, 72160,
    72160, 72193, 72202, 72243, 72248, 72251, 72254, 72263, 72263, 72273, 72278, 72281, 72283,
    72330, 72342, 72344, 72345, 72752, 72758, 72760, 72765, 72767, 72767, 72850, 72871, 72874,
    72880, 72882, 72883, 72885, 72886, 73009, 73014, 73018, 73018, 73020, 73021, 73023, 73029,
    73031, 73031, 73104, 73105, 73109, 73109, 73111, 73111, 73459, 73460, 78896, 78904, 92912,
    92916, 92976, 92982, 92992, 92995, 94031, 94031, 94095, 94111, 94176, 94177, 94179, 94180,
    110576, 110579, 110581, 110587, 110589, 110590, 113821, 113822, 113824, 113827, 118528,
    118573, 118576, 118598, 119143, 119145, 119155, 119170, 119173, 119179, 119210, 119213,
    119362, 119364, 121344, 121398, 121403, 121452, 121461, 121461, 121476, 121476, 121499,
    121503, 121505, 121519, 122880, 122886, 122888, 122904, 122907, 122913, 122915, 122916,
    122918, 122922, 123184, 123197, 123566, 123566, 123628, 123631, 125136, 125142, 125252,
    125259, 127995, 127999, 917505, 917505, 917536, 917631, 917760, 917999
>>
CASED_RANGES == <<
    65, 90, 97, 122, 170, 170, 181, 181, 186, 186, 192, 214, 216, 246, 248, 442, 444, 447, 452,
    659, 661, 687, 880, 883, 886, 887, 891, 893, 895, 895, 902, 902, 904, 906, 908, 908, 910,
    929, 931, 1013, 1015, 1153, 1162, 1327, 1329, 1366, 1376, 1416, 4256, 4293, 4295, 4295,
    4301, 4301, 4304, 4346, 4349, 4351, 5024, 5109, 5112, 5117, 7296, 7304, 7312, 7354, 7357,
    7359, 7424, 7467, 7531, 7543, 7545, 7578, 7680, 7957, 7960, 7965, 7968, 8005, 8008, 8013,
    8016, 8023, 8025, 8025, 8027, 8027, 8029, 8029, 8031, 8061, 8064, 8116, 8118, 8124, 8126,
    8126, 8130, 8132, 8134, 8140, 8144, 8147, 8150, 8155, 8160, 8172, 8178, 8180, 8182, 8188,
    8450, 8450, 8455, 8455, 8458, 8467, 8469, 8469, 8473, 8477, 8484, 8484, 8486, 8486, 8488,
    8488, 8490, 8493, 8495, 8500, 8505, 8505, 8508, 8511, 8517, 8521, 8526, 8526, 8544, 8575,
    8579, 8580, 9398, 9449, 11264, 11387, 11390, 11492, 11499, 11502, 11506, 11507, 11520,
    11557, 11559, 11559, 11565, 11565, 42560, 42605, 42624, 42651, 42786, 42863, 42865, 42887,
    42891, 42894, 42896, 42954, 42960, 42961, 42963, 42963, 42965, 42969, 42997, 42998, 43002,
    43002, 43824, 43866, 43872, 43880, 43888, 43967, 64256, 64262, 64275, 64279, 65313, 65338,
    65345, 65370, 66560, 66639, 66736, 66771, 66776, 66811, 66928, 66938, 66940, 66954, 66956,
    66962, 66964, 66965, 66967, 66977, 66979, 66993, 66995, 67001, 67003, 67004, 68736, 68786,
    68800, 68850, 71840, 71903, 93760, 93823, 119808, 119892, 119894, 119964, 119966, 119967,
    119970, 119970, 119973, 119974, 119977, 119980, 119982, 119993, 119995, 119995, 119997,
    120003, 120005, 120069, 120071, 120074, 120077, 120084, 120086, 120092, 120094, 120121,
    120123, 120126, 120128, 120132, 120134, 120134, 120138, 120144, 120146, 120485, 120488,
    120512, 120514, 120538, 120540, 120570, 120572, 120596, 120598, 120628, 120630, 120654,
    120656, 120686, 120688, 120712, 120714, 120744, 120746, 120770, 120772, 120779, 122624,
    122633, 122635, 122654, 125184, 125251, 127280, 127305, 127312, 127337, 127344, 127369
>>
CASE_IGNORABLE == CharsOf(CASE_IGNORABLE_RANGES)
CASED == CharsOf(CASED_RANGES)

\* U+03A3 at index i is a final sigma: a cased character before it and none
\* after it, the case-ignorable characters passed over
FinalSigmaIn(s, i, cased, ignorable) ==
    /\ \E j \in 1..(i - 1) :
           /\ s[j] \in cased
           /\ \A m \in (j + 1)..(i - 1) : s[m] \in ignorable
    /\ \A j \in (i + 1)..Len(s) :
           s[j] \in cased => \E m \in (i + 1)..(j - 1) : s[m] \notin ignorable
FinalSigma(s, i) == FinalSigmaIn(s, i, CASED, CASE_IGNORABLE)

\* f[c] where f maps c, otherwise c
MappedOr(f, c) == IF c \in DOMAIN f THEN f[c] ELSE c

\* What str.lower() makes of the character at index i
LowerAt(s, i) ==
    IF s[i] = "u03a3" THEN (IF FinalSigma(s, i) THEN <<"u03c2">> ELSE <<"u03c3">>)
    ELSE IF s[i] = "u0130" THEN <<"i", "u0307">>
    ELSE <<MappedOr(LowerOf, s[i])>>

\* str.lower()
Lower(s) == Concat([i \in 1..Len(s) |-> LowerAt(s, i)])

\* re.sub(r'[：:]+$', '', s): $ is the end of the text, or the place before
\* a line feed that ends it
StripTrailingColons(s) ==
    IF Len(s) > 0 /\ s[Len(s)] = NEWLINE
    THEN SubSeq(s, 1, SkipClassBack(s, Len(s) - 1, COLONS)) \o <<NEWLINE>>
    ELSE SubSeq(s, 1, SkipClassBack(s, Len(s), COLONS))

\* int(s) for a string of decimal digits
DigitValues ==
    [c \in DIGITS |->
        (CHOOSE k \in 1..10 : \E r \in 1..Len(DIGIT_RUNS) : DIGIT_RUNS[r][k] = c) - 1]
DigitVal(c) == DigitValues[c]
RECURSIVE DecimalValue(_)
DecimalValue(s) ==
    IF Len(s) = 0 THEN 0
    ELSE 10 * DecimalValue(SubSeq(s, 1, Len(s) - 1)) + DigitVal(s[Len(s)])

\* A text of decimal digits, one at least
IsDigitStr(s) == Len(s) > 0 /\ \A i \in 1..Len(s) : s[i] \in DIGITS

\* int(s) reads an optional sign and decimal digits, single underscores
\* between the digits, with white space around them; it raises ValueError on
\* any other text.
Unsigned(s) == IF Len(s) > 0 /\ s[1] \in {"+", "-"} THEN Tail(s) ELSE s
IsIntBody(b) ==
    /\ Len(b) > 0 /\ b[1] \in DIGITS /\ b[Len(b)] \in DIGITS
    /\ \A i \in 1..Len(b) : b[i] \in DIGITS \/ (b[i] = "_" /\ b[i + 1] # "_")
\* The white space int() passes over at the ends of a text: that of str.strip()
\* but the separators u001c to u001f
INT_SPACE == WS \ {"u001c", "u001d", "u001e", "u001f"}
IntStrip(s) ==
    IF SkipClass(s, 1, INT_SPACE) > SkipClassBack(s, Len(s), INT_SPACE) THEN <<>>
    ELSE SubSeq(s, SkipClass(s, 1, INT_SPACE), SkipClassBack(s, Len(s), INT_SPACE))
IsIntLiteral(s) == IsIntBody(Unsigned(IntStrip(s)))
IntValue(s) ==
    (IF Len(IntStrip(s)) > 0 /\ IntStrip(s)[1] = "-" THEN -1 ELSE 1)
    * DecimalValue(SelectSeq(Unsigned(IntStrip(s)), LAMBDA c : c \in DIGITS))

(***************************************************************************)
(* tender_parser.py: the taxonomy and classify_section                     *)
(***************************************************************************)
\* The taxonomy, in declaration order (a dict iterates in insertion order).
SECTION_KEYWORD_MAP == <<
  \* 投标函 : 投标函 投标书 -> 投标函模板
  [type |-> <<"u6295", "u6807", "u51fd">>,
   keywords |-> << <<"u6295", "u6807", "u51fd">>,
                 <<"u6295", "u6807", "u4e66">> >>,
   category |-> <<"u6295", "u6807", "u51fd", "u6a21", "u677f">>],
  \* 报价表 : 报价 分项报价 投标报价 开标一览表 投标总价 工程量清单 -> 报价表
  [type |-> <<"u62a5", "u4ef7", "u8868">>,
   keywords |-> << <<"u62a5", "u4ef7">>,
                 <<"u5206", "u9879", "u62a5", "u4ef7">>,
                 <<"u6295", "u6807", "u62a5", "u4ef7">>,
                 <<"u5f00", "u6807", "u4e00", "u89c8", "u8868">>,
                 <<"u6295", "u6807", "u603b", "u4ef7">>,
                 <<"u5de5", "u7a0b", "u91cf", "u6e05", "u5355">> >>,
   category |-> <<"u62a5", "u4ef7", "u8868">>],
  \* 法定代表人证明 : 法定代表人 法人身份 法人证明 法人授权 -> 法定代表人证明
  [type |-> <<"u6cd5", "u5b9a", "u4ee3", "u8868", "u4eba", "u8bc1", "u660e">>,
   keywords |-> << <<"u6cd5", "u5b9a", "u4ee3", "u8868", "u4eba">>,
                 <<"u6cd5", "u4eba", "u8eab", "u4efd">>,
                 <<"u6cd5", "u4eba", "u8bc1", "u660e">>,
                 <<"u6cd5", "u4eba", "u6388", "u6743">> >>,
   category |-> <<"u6cd5", "u5b9a", "u4ee3", "u8868", "u4eba", "u8bc1", "u660e">>],
  \* 授权委托书 : 授权委托 委托书 总公司授权 授权文件 -> 授权委托书
  [type |-> <<"u6388", "u6743", "u59d4", "u6258", "u4e66">>,
   keywords |-> << <<"u6388", "u6743", "u59d4", "u6258">>,
                 <<"u59d4", "u6258", "u4e66">>,
                 <<"u603b", "u516c", "u53f8", "u6388", "u6743">>,
                 <<"u6388", "u6743", "u6587", "u4ef6">> >>,
   category |-> <<"u6388", "u6743", "u59d4", "u6258", "u4e66">>],
  \* 营业执照 : 营业执照 企业法人 工商注册 统一社会信用 -> 营业执照
  [type |-> <<"u8425", "u4e1a", "u6267", "u7167">>,
   keywords |-> << <<"u8425", "u4e1a", "u6267", "u7167">>,
                 <<"u4f01", "u4e1a", "u6cd5", "u4eba">>,
                 <<"u5de5", "u5546", "u6ce8", "u518c">>,
                 <<"u7edf", "u4e00", "u793e", "u4f1a", "u4fe1", "u7528">> >>,
   category |-> <<"u8425", "u4e1a", "u6267", "u7167">>],
  \* 投标保证金 : 保证金 投标担保 保函 -> 其他
  [type |-> <<"u6295", "u6807", "u4fdd", "u8bc1", "u91d1">>,
   keywords |-> << <<"u4fdd", "u8bc1", "u91d1">>,
                 <<"u6295", "u6807", "u62c5", "u4fdd">>,
                 <<"u4fdd", "u51fd">> >>,
   category |-> <<"u5176", "u4ed6">>],
  \* 基本情况表 : 基本情况 投标人情况 企业概况 公司简介 -> 其他
  [type |-> <<"u57fa", "u672c", "u60c5", "u51b5", "u8868">>,
   keywords |-> << <<"u57fa", "u672c", "u60c5", "u51b5">>,
                 <<"u6295", "u6807", "u4eba", "u60c5", "u51b5">>,
                 <<"u4f01", "u4e1a", "u6982", "u51b5">>,
                 <<"u516c", "u53f8", "u7b80", "u4ecb">> >>,
   category |-> <<"u5176", "u4ed6">>],
  \* CMA证书 : CMA CNAS 资质认定 检验检测资质 认可证书 计量认证 -> CMA证书
  [type |-> <<"C", "M", "A", "u8bc1", "u4e66">>,
   keywords |-> << <<"C", "M", "A">>,
                 <<"C", "N", "A", "S">>,
                 <<"u8d44", "u8d28", "u8ba4", "u5b9a">>,
                 <<"u68c0", "u9a8c", "u68c0", "u6d4b", "u8d44", "u8d28">>,
                 <<"u8ba4", "u53ef", "u8bc1", "u4e66">>,
                 <<"u8ba1", "u91cf", "u8ba4", "u8bc1">> >>,
   category |-> <<"C", "M", "A", "u8bc1", "u4e66">>],
  \* 资质证书 : 资质证书 资质等级 行业资质 专业资质 -> CMA证书
  [type |-> <<"u8d44", "u8d28", "u8bc1", "u4e66">>,
   keywords |-> << <<"u8d44", "u8d28", "u8bc1", "u4e66">>,
                 <<"u8d44", "u8d28", "u7b49", "u7ea7">>,
                 <<"u884c", "u4e1a", "u8d44", "u8d28">>,
                 <<"u4e13", "u4e1a", "u8d44", "u8d28">> >>,
   category |-> <<"C", "M", "A", "u8bc1", "u4e66">>],
  \* 信誉承诺书 : 信誉 承诺书 无违法 无行贿 廉洁 诚信 -> 信誉承诺书
  [type |-> <<"u4fe1", "u8a89", "u627f", "u8bfa", "u4e66">>,
   keywords |-> << <<"u4fe1", "u8a89">>,
                 <<"u627f", "u8bfa", "u4e66">>,
                 <<"u65e0", "u8fdd", "u6cd5">>,
                 <<"u65e0", "u884c", "u8d3f">>,
                 <<"u5ec9", "u6d01">>,
                 <<"u8bda", "u4fe1">> >>,
   category |-> <<"u4fe1", "u8a89", "u627f", "u8bfa", "u4e66">>],
  \* 人员资料 : 人员 项目负责人 技术负责人 职称证 社保 资格证书 采样人员 检测人员 持证上岗 人员配置 -> 人员资料
  [type |-> <<"u4eba", "u5458", "u8d44", "u6599">>,
   keywords |-> << <<"u4eba", "u5458">>,
                 <<"u9879", "u76ee", "u8d1f", "u8d23", "u4eba">>,
                 <<"u6280", "u672f", "u8d1f", "u8d23", "u4eba">>,
                 <<"u804c", "u79f0", "u8bc1">>,
                 <<"u793e", "u4fdd">>,
                 <<"u8d44", "u683c", "u8bc1", "u4e66">>,
                 <<"u91c7", "u6837", "u4eba", "u5458">>,
                 <<"u68c0", "u6d4b", "u4eba", "u5458">>,
                 <<"u6301", "u8bc1", "u4e0a", "u5c97">>,
                 <<"u4eba", "u5458", "u914d", "u7f6e">> >>,
   category |-> <<"u4eba", "u5458", "u8d44", "u6599">>],
  \* 技术方案 : 技术方案 实施方案 服务方案 检测方案 技术路线 工作方案 质量保证方案 技术措施 -> 技术方案
  [type |-> <<"u6280", "u672f", "u65b9", "u6848">>,
   keywords |-> << <<"u6280", "u672f", "u65b9", "u6848">>,
                 <<"u5b9e", "u65bd", "u65b9", "u6848">>,
                 <<"u670d", "u52a1", "u65b9", "u6848">>,
                 <<"u68c0", "u6d4b", "u65b9", "u6848">>,
                 <<"u6280", "u672f", "u8def", "u7ebf">>,
                 <<"u5de5", "u4f5c", "u65b9", "u6848">>,
                 <<"u8d28", "u91cf", "u4fdd", "u8bc1", "u65b9", "u6848">>,
                 <<"u6280", "u672f", "u63aa", "u65bd">> >>,
   category |-> <<"u6280", "u672f", "u65b9", "u6848">>],
  \* 技术偏差表 : 技术偏差 偏差表 技术要求偏差 响应偏差 -> 技术方案
  [type |-> <<"u6280", "u672f", "u504f", "u5dee", "u8868">>,
   keywords |-> << <<"u6280", "u672f", "u504f", "u5dee">>,
                 <<"u504f", "u5dee", "u8868">>,
                 <<"u6280", "u672f", "u8981", "u6c42", "u504f", "u5dee">>,
                 <<"u54cd", "u5e94", "u504f", "u5dee">> >>,
   category |-> <<"u6280", "u672f", "u65b9", "u6848">>],
  \* 业绩证明 : 业绩 类似项目 合同 中标通知 验收报告 项目经验 同类项目 -> 业绩证明
  [type |-> <<"u4e1a", "u7ee9", "u8bc1", "u660e">>,
   keywords |-> << <<"u4e1a", "u7ee9">>,
                 <<"u7c7b", "u4f3c", "u9879", "u76ee">>,
                 <<"u5408", "u540c">>,
                 <<"u4e2d", "u6807", "u901a", "u77e5">>,
                 <<"u9a8c", "u6536", "u62a5", "u544a">>,
                 <<"u9879", "u76ee", "u7ecf", "u9a8c">>,
                 <<"u540c", "u7c7b", "u9879", "u76ee">> >>,
   category |-> <<"u4e1a", "u7ee9", "u8bc1", "u660e">>],
  \* 售后服务 : 售后 服务承诺 质量保证 公司优势 服务保障 应急预案 -> 其他
  [type |-> <<"u552e", "u540e", "u670d", "u52a1">>,
   keywords |-> << <<"u552e", "u540e">>,
                 <<"u670d", "u52a1", "u627f", "u8bfa">>,
                 <<"u8d28", "u91cf", "u4fdd", "u8bc1">>,
                 <<"u516c", "u53f8", "u4f18", "u52bf">>,
                 <<"u670d", "u52a1", "u4fdd", "u969c">>,
                 <<"u5e94", "u6025", "u9884", "u6848">> >>,
   category |-> <<"u5176", "u4ed6">>],
  \* 财务报表 : 财务 审计报告 资产负债 财务报表 纳税 -> 其他
  [type |-> <<"u8d22", "u52a1", "u62a5", "u8868">>,
   keywords |-> << <<"u8d22", "u52a1">>,
                 <<"u5ba1", "u8ba1", "u62a5", "u544a">>,
                 <<"u8d44", "u4ea7", "u8d1f", "u503a">>,
                 <<"u8d22", "u52a1", "u62a5", "u8868">>,
                 <<"u7eb3", "u7a0e">> >>,
   category |-> <<"u5176", "u4ed6">>],
  \* 安全生产 : 安全生产 安全管理 安全制度 安全许可 -> 其他
  [type |-> <<"u5b89", "u5168", "u751f", "u4ea7">>,
   keywords |-> << <<"u5b89", "u5168", "u751f", "u4ea7">>,
                 <<"u5b89", "u5168", "u7ba1", "u7406">>,
                 <<"u5b89", "u5168", "u5236", "u5ea6">>,
                 <<"u5b89", "u5168", "u8bb8", "u53ef">> >>,
   category |-> <<"u5176", "u4ed6">>],
  \* 质量管理 : 质量管理 ISO 体系认证 管理体系 质量体系 -> 其他
  [type |-> <<"u8d28", "u91cf", "u7ba1", "u7406">>,
   keywords |-> << <<"u8d28", "u91cf", "u7ba1", "u7406">>,
                 <<"I", "S", "O">>,
                 <<"u4f53", "u7cfb", "u8ba4", "u8bc1">>,
                 <<"u7ba1", "u7406", "u4f53", "u7cfb">>,
                 <<"u8d28", "u91cf", "u4f53", "u7cfb">> >>,
   category |-> <<"u5176", "u4ed6">>]
>>
OTHER_TYPE == <<"u5176", "u4ed6">>  \* 其他

TaxonomyTypes == {SECTION_KEYWORD_MAP[k].type : k \in 1..Len(SECTION_KEYWORD_MAP)}
TaxonomyKeywords ==
    UNION {{SECTION_KEYWORD_MAP[k].keywords[j] :
               j \in 1..Len(SECTION_KEYWORD_MAP[k].keywords)} :
           k \in 1..Len(SECTION_KEYWORD_MAP)}

ScoreFactor == 15
ScoreCap == 100

\* The inner loop: score += len(kw) for every keyword found in the lowered text.
RECURSIVE KeywordScore(_, _, _)
KeywordScore(keywords, text_lower, j) ==
    IF j > Len(keywords) THEN 0
    ELSE (IF Contains(text_lower, Lower(keywords[j])) THEN Len(keywords[j]) ELSE 0)
         + KeywordScore(keywords, text_lower, j + 1)

\* Mutant: a tie replaces the best type (the last-declared type wins a tie).
ClassifyBetterOrEqual(score, best_score) == score > 0 /\ score >= best_score
\* Mutant: every matching type replaces the best type (the last match wins).
ClassifyAnyMatch(score, best_score) == score > 0
\* `if score > best_score`
ClassifyBetter(score, best_score) == score > best_score

\* The outer loop over SECTION_KEYWORD_MAP.items(), from entry k on.
RECURSIVE ClassifyLoop(_, _, _)
ClassifyLoop(k, text_lower, best) ==
    IF k > Len(SECTION_KEYWORD_MAP) THEN best
    ELSE LET info == SECTION_KEYWORD_MAP[k]
             score == KeywordScore(info.keywords, text_lower, 1)
         IN ClassifyLoop(k + 1, text_lower,
                IF ClassifyBetter(score, best.score)
                THEN [type |-> info.type, category |-> info.category, score |-> score]
                ELSE best)

\* normalized_score = min(100, best_score * 15) if best_score > 0 else 0
NormalizeScore(best_score) ==
    IF best_score > 0 THEN Min2(ScoreCap, best_score * ScoreFactor) ELSE 0

classify_section(text) ==
    LET best == ClassifyLoop(1, Lower(text),
                    [type |-> OTHER_TYPE, category |-> OTHER_TYPE, score |-> 0])
    IN [type |-> best.type, category |-> best.category,
        score |-> NormalizeScore(best.score)]

(***************************************************************************)
(* format_parser.py: heading patterns, _cn_to_int, _match_heading          *)
(***************************************************************************)
\* HEADING_PATTERNS, in priority order.  A pattern reads: ^\s*, then each
\* character class of `open` followed by \s*, then the captured numeral
\* (one or more characters of `num`), \s*, the character classes of `close`
\* one after the other, \s* and the captured title (.+).
HEADING_PATTERNS == <<
    \* ^[\s]*([一二三四五六七八九十百]+)\s*[、.．]\s*(.+)
    [open |-> <<>>, num |-> CN_DIGITS, close |-> <<SEPS>>, level |-> "major"],
    \* ^[\s]*[（(]\s*([一二三四五六七八九十百]+)\s*[）)]\s*(.+)
    [open |-> <<LPAREN>>, num |-> CN_DIGITS, close |-> <<RPAREN>>, level |-> "sub"],
    \* ^[\s]*第\s*([一二三四五六七八九十百\d]+)\s*部分\s*(.+)
    [open |-> <<{"u7b2c"}>>, num |-> CN_DIGITS \cup DIGITS,
     close |-> <<{"u90e8"}, {"u5206"}>>, level |-> "major"],
    \* ^[\s]*(\d+)\s*[、.．]\s*(.+)
    [open |-> <<>>, num |-> DIGITS, close |-> <<SEPS>>, level |-> "major_num"],
    \* ^[\s]*[（(]\s*(\d+)\s*[）)]\s*(.+)
    [open |-> <<LPAREN>>, num |-> DIGITS, close |-> <<RPAREN>>, level |-> "sub_num"]
>>

CN_NUM_MAP == <<
  [cn |-> <<"u4e00">>, val |-> 1],            \* 一
  [cn |-> <<"u4e8c">>, val |-> 2],            \* 二
  [cn |-> <<"u4e09">>, val |-> 3],            \* 三
  [cn |-> <<"u56db">>, val |-> 4],            \* 四
  [cn |-> <<"u4e94">>, val |-> 5],            \* 五
  [cn |-> <<"u516d">>, val |-> 6],            \* 六
  [cn |-> <<"u4e03">>, val |-> 7],            \* 七
  [cn |-> <<"u516b">>, val |-> 8],            \* 八
  [cn |-> <<"u4e5d">>, val |-> 9],            \* 九
  [cn |-> <<"u5341">>, val |-> 10],           \* 十
  [cn |-> <<"u5341", "u4e00">>, val |-> 11],  \* 十一
  [cn |-> <<"u5341", "u4e8c">>, val |-> 12],  \* 十二
  [cn |-> <<"u5341", "u4e09">>, val |-> 13],  \* 十三
  [cn |-> <<"u5341", "u56db">>, val |-> 14],  \* 十四
  [cn |-> <<"u5341", "u4e94">>, val |-> 15],  \* 十五
  [cn |-> <<"u5341", "u516d">>, val |-> 16],  \* 十六
  [cn |-> <<"u5341", "u4e03">>, val |-> 17],  \* 十七
  [cn |-> <<"u5341", "u516b">>, val |-> 18],  \* 十八
  [cn |-> <<"u5341", "u4e5d">>, val |-> 19],  \* 十九
  [cn |-> <<"u4e8c", "u5341">>, val |-> 20]   \* 二十
>>

\* int(s), with the ValueError caught by the caller's `except` giving 0
IntOrZero(s) == IF IsIntLiteral(s) THEN IntValue(s) ELSE 0

\* Mutant: a lookup table that holds the single characters only.
CnToIntSingleOnly(cn) ==
    IF \E i \in 1..Len(CN_NUM_MAP) : CN_NUM_MAP[i].cn = cn /\ Len(cn) = 1
    THEN CN_NUM_MAP[CHOOSE i \in 1..Len(CN_NUM_MAP) : CN_NUM_MAP[i].cn = cn].val
    ELSE IntOrZero(cn)
\* _cn_to_int
cn_to_int(cn) ==
    IF \E i \in 1..Len(CN_NUM_MAP) : CN_NUM_MAP[i].cn = cn
    THEN CN_NUM_MAP[CHOOSE i \in 1..Len(CN_NUM_MAP) : CN_NUM_MAP[i].cn = cn].val
    ELSE IntOrZero(cn)

\* The classes of `sets` from index i on, each followed by \s*; 0 when one fails.
RECURSIVE MatchOpen(_, _, _, _)
MatchOpen(s, i, sets, k) ==
    IF k > Len(sets) THEN i
    ELSE IF i <= Len(s) /\ s[i] \in sets[k]
         THEN MatchOpen(s, SkipClass(s, i + 1, WS), sets, k + 1)
         ELSE 0

\* The classes of `sets` from index i on, one after the other; 0 when one fails.
RECURSIVE MatchClose(_, _, _, _)
MatchClose(s, i, sets, k) ==
    IF k > Len(sets) THEN i
    ELSE IF i <= Len(s) /\ s[i] \in sets[k]
         THEN MatchClose(s, i + 1, sets, k + 1)
         ELSE 0

NoMatch == [ok |-> FALSE, num |-> <<>>, name |-> <<>>]

\* re.match(pattern, s): the two groups, or NoMatch.  The classes that follow
\* one another are disjoint, so the greedy reading is the only one; the final
\* \s* takes line feeds too and gives characters back to (.+) when only white
\* space is left, and (.+) ends at the first line feed or at the end.
ReMatch(p, s) ==
    LET i0 == MatchOpen(s, SkipClass(s, 1, WS), p.open, 1)
        i1 == IF i0 = 0 THEN 0 ELSE SkipClass(s, i0, p.num)
        i2 == IF i0 = 0 \/ i1 = i0 THEN 0
              ELSE MatchClose(s, SkipClass(s, i1, WS), p.close, 1)
        j  == IF i2 = 0 THEN 0 ELSE DotStart(s, i2)
    IN IF i2 = 0 \/ j = 0 THEN NoMatch
       ELSE [ok |-> TRUE, num |-> SubSeq(s, i0, i1 - 1),
             name |-> SubSeq(s, j, LineEnd(s, j) - 1)]

MaxRawLen == 100
NameMin == 2
NameMax == 60

NOTE_MARKERS == << <<"u6ce8", "uff1a">>,     \* 注：
                   <<"u5907", "u6ce8">>,     \* 备注
                   <<"u8bf4", "u660e">> >>   \* 说明

STYLE_MARKERS == << <<"h", "e", "a", "d", "i", "n", "g">>,   \* heading
                    <<"t", "i", "t", "l", "e">>,             \* title
                    <<"u6807", "u9898">> >>                  \* 标题

\* _is_heading_style, on the paragraph's style name
is_heading_style(style_name) ==
    \E k \in 1..Len(STYLE_MARKERS) : Contains(Lower(style_name), STYLE_MARKERS[k])

\* Mutant: the pattern's tag is returned as it is declared.
FinalLevelUnmapped(level) == level
\* sub_num -> sub, major_num -> major
FinalLevel(level) ==
    IF level = "sub_num" THEN "sub"
    ELSE IF level = "major_num" THEN "major"
    ELSE level

\* order_num of a pattern match
OrderNum(level, num_str) ==
    IF level \in {"major", "sub"} THEN cn_to_int(num_str)
    ELSE IF IsDigitStr(num_str) THEN DecimalValue(num_str) ELSE 0

\* name = re.sub(r'[：:]+$', '', m.group(2).strip()).strip()
CleanName(g2) == Strip(StripTrailingColons(Strip(g2)))

\* The `for pattern, level in HEADING_PATTERNS` loop from pattern k on: the
\* first pattern that matches with a name of 2..60 characters, else None.
RECURSIVE MatchPatterns(_, _)
MatchPatterns(text, k) ==
    IF k > Len(HEADING_PATTERNS) THEN None
    ELSE LET Named(p, m, name) ==
                 IF ~m.ok THEN MatchPatterns(text, k + 1)
                 ELSE IF Len(name) < NameMin \/ Len(name) > NameMax
                      THEN MatchPatterns(text, k + 1)          \* continue
                      ELSE [level |-> FinalLevel(p.level), name |-> name,
                            order_num |-> OrderNum(p.level, m.num)]
             Tried(p, m) == Named(p, m, CleanName(m.name))
         IN Tried(HEADING_PATTERNS[k], ReMatch(HEADING_PATTERNS[k], text))

\* _match_heading(text, paragraph); `style` is paragraph.style.name (every
\* caller passes the paragraph).
match_heading(text, style) ==
    IF Len(text) > MaxRawLen THEN None
    ELSE IF \E k \in 1..Len(NOTE_MARKERS) : StartsWith(text, NOTE_MARKERS[k])
    THEN None
    ELSE LET OrByStyle(byPattern) ==
                 IF byPattern # None THEN byPattern
                 ELSE IF is_heading_style(style)
                         /\ NameMin <= Len(Strip(text)) /\ Len(Strip(text)) <= NameMax
                      THEN [level |-> "major", name |-> Strip(text), order_num |-> 0]
                      ELSE None
         IN OrByStyle(MatchPatterns(text, 1))

(***************************************************************************)
(* format_parser.py: parse_format_template                                 *)
(***************************************************************************)
\* A .docx file: whether Document(filepath) opens it, and the children of the
\* document body in order, each a paragraph (text, style name) or a table.
\* A table holds its rows, a row the texts of its cells (cell.text).  A .pdf
\* has pages: the elements between two page breaks are the lines and the
\* tables of one page.
Para(text, style) == [kind |-> "p", text |-> text, style |-> style]
TableOf(rows) == [kind |-> "tbl", rows |-> rows]
Table == TableOf(<<>>)
PageBreak == [kind |-> "pb"]
IsPara(c) == c.kind = "p"
IsTable(c) == c.kind = "tbl"

\* doc.paragraphs: the body's paragraphs, in order
Paragraphs(body) == SelectSeq(body, IsPara)

\* The first scan: raw_headings, from paragraph i (1-based here, para_index is
\* 0-based) on.
RECURSIVE RawHeadings(_, _)
RawHeadings(paragraphs, i) ==
    IF i > Len(paragraphs) THEN <<>>
    ELSE LET Heading(text, matched) ==
                 IF matched = None THEN <<>>
                 ELSE << [para_index |-> i - 1,
                          heading_text |-> text,
                          section_name |-> Strip(matched.name),
                          heading_level |-> matched.level,
                          order_num |-> matched.order_num] >>
             Scanned(text) ==
                 Heading(text, IF Len(text) = 0 THEN None
                               ELSE match_heading(text, paragraphs[i].style))
         IN Scanned(Strip(paragraphs[i].text)) \o RawHeadings(paragraphs, i + 1)

\* _build_table_index: for each table of the body, in order, the number of
\* paragraphs that come before it.
RECURSIVE BuildTableIndex(_, _, _)
BuildTableIndex(body, i, para_count) ==
    IF i > Len(body) THEN <<>>
    ELSE IF IsPara(body[i]) THEN BuildTableIndex(body, i + 1, para_count + 1)
    ELSE IF IsTable(body[i])
         THEN <<para_count>> \o BuildTableIndex(body, i + 1, para_count)
         ELSE BuildTableIndex(body, i + 1, para_count)

\* Mutant: the table test on the half-open range [content_start, content_end).
RangeHasTableHalfOpen(table_positions, content_start, content_end) ==
    \E k \in 1..Len(table_positions) :
        content_start <= table_positions[k] /\ table_positions[k] < content_end
\* _range_has_table
RangeHasTable(table_positions, content_start, content_end) ==
    \E k \in 1..Len(table_positions) :
        content_start <= table_positions[k] /\ table_positions[k] <= content_end

\* Mutant: every section runs to the end of the document.
ContentEndAtDocumentEnd(raw_headings, idx, total_paras) == total_paras
\* content_end of the heading at position idx (1-based) of raw_headings
ContentEnd(raw_headings, idx, total_paras) ==
    IF idx + 1 <= Len(raw_headings) THEN raw_headings[idx + 1].para_index
    ELSE total_paras

\* The second pass: one section per heading.
BuildSections(raw_headings, table_positions, total_paras) ==
    [idx \in 1..Len(raw_headings) |->
        LET heading == raw_headings[idx]
            content_start == heading.para_index + 1
            Section(cls, content_end) ==
                [order |-> idx,
                 section_name |-> heading.section_name,
                 heading_text |-> heading.heading_text,
                 para_index |-> heading.para_index,
                 heading_level |-> heading.heading_level,
                 section_type |-> cls.type,
                 category |-> cls.category,
                 match_score |-> cls.score,
                 content_start |-> content_start,
                 content_end |-> content_end,
                 has_table |-> RangeHasTable(table_positions, content_start, content_end)]
        IN Section(classify_section(heading.section_name),
                   ContentEnd(raw_headings, idx, total_paras))]

FormatFailure(total_paras, total_tables, message) ==
    [success |-> FALSE, sections |-> <<>>, total_paragraphs |-> total_paras,
     total_tables |-> total_tables, message |-> message]

parse_format_template(file) ==
    IF ~file.opens THEN FormatFailure(0, 0, "cannot_open")
    ELSE LET total_paras == Len(Paragraphs(file.body))
             total_tables == Len(SelectSeq(file.body, IsTable))
             FromHeadings(raw_headings) ==
                 IF total_paras = 0
                 THEN FormatFailure(0, total_tables, "no_paragraphs")
                 ELSE IF Len(raw_headings) = 0
                 THEN FormatFailure(total_paras, total_tables, "no_headings")
                 ELSE [success |-> TRUE,
                       sections |-> BuildSections(raw_headings,
                                        BuildTableIndex(file.body, 1, 0), total_paras),
                       total_paragraphs |-> total_paras,
                       total_tables |-> total_tables,
                       message |-> "ok"]
         IN FromHeadings(RawHeadings(Paragraphs(file.body), 1))

(***************************************************************************)
(* tender_parser.py: the regular expressions of the tender parser          *)
(***************************************************************************)
\* A regular expression that re.match anchors at the start of the text is a
\* sequence of elements over character classes: one character, an optional
\* character, class* and class+.  Wherever a repetition is followed by
\* another element the two classes are disjoint, so the greedy reading is
\* the only one.
One(S)  == [kind |-> "one",  set |-> S]
Opt(S)  == [kind |-> "opt",  set |-> S]
Star(S) == [kind |-> "star", set |-> S]
Plus(S) == [kind |-> "plus", set |-> S]

\* The literal text `str` as a regular expression
Lit(str) == [i \in 1..Len(str) |-> One({str[i]})]

\* The index after the match of elems[k..] read from index i on, 0 for no match.
RECURSIVE MatchElems(_, _, _, _)
MatchElems(s, i, elems, k) ==
    IF k > Len(elems) THEN i
    ELSE LET e == elems[k]
             here == i <= Len(s) /\ s[i] \in e.set
             j == SkipClass(s, i, e.set)
         IN CASE e.kind = "one"  -> IF here THEN MatchElems(s, i + 1, elems, k + 1) ELSE 0
              [] e.kind = "opt"  -> MatchElems(s, IF here THEN i + 1 ELSE i, elems, k + 1)
              [] e.kind = "star" -> MatchElems(s, j, elems, k + 1)
              [] e.kind = "plus" -> IF j > i THEN MatchElems(s, j, elems, k + 1) ELSE 0

\* re.match(elems, s): the index after the match, 0 for no match
ReMatchEnd(elems, s) == MatchElems(s, 1, elems, 1)

\* re.sub(elems, '', s) for an expression anchored at the start
ReSubPrefix(elems, s) ==
    LET e == ReMatchEnd(elems, s)
    IN IF e = 0 THEN s ELSE SubSeq(s, e, Len(s))

\* The index after the first occurrence of `sub` that starts at index i or
\* later, 0 when there is none.
FindEnd(s, sub, i) ==
    LET starts == {a \in i..(Len(s) - Len(sub) + 1) :
                       \A j \in 1..Len(sub) : s[a + j - 1] = sub[j]}
    IN IF starts = {} THEN 0
       ELSE (CHOOSE a \in starts : \A b \in starts : a <= b) + Len(sub)

\* The least index after an occurrence, at index i or later, of one of the
\* alternatives `alts`; 0 when there is none.
FindAnyEnd(s, alts, i) ==
    LET ends == {FindEnd(s, a, i) : a \in alts} \ {0}
    IN IF ends = {} THEN 0 ELSE CHOOSE e \in ends : \A f \in ends : e <= f

\* An expression  A1 .* A2 .* ... An  where each Ak is an alternation of
\* literals is a sequence of sets of literals (`stages`).  Within one line it
\* matches from index i on iff the stages occur one after the other; taking
\* the occurrence of each stage that ends first loses no match.
RECURSIVE SearchStages(_, _, _, _)
SearchStages(s, i, stages, k) ==
    IF k > Len(stages) THEN TRUE
    ELSE LET e == FindAnyEnd(s, stages[k], i)
         IN e # 0 /\ SearchStages(s, e, stages, k + 1)

\* re.search(stages, s): `.` matches no line feed and no literal holds one, so
\* a match lies within one of the lines of s
ReSearch(stages, s) ==
    \E k \in 1..Len(SplitOn(s, NEWLINE)) :
        SearchStages(SplitOn(s, NEWLINE)[k], 1, stages, 1)

CN10 == CN_DIGITS \ {"u767e"}                           \* 一二三四五六七八九十
TAB == "u0009"                                          \* \t
CIRCLED == {"u2460", "u2461", "u2462", "u2463", "u2464",
            "u2465", "u2466", "u2467", "u2468", "u2469"}    \* ①②③④⑤⑥⑦⑧⑨⑩
BULLETS == {"-", "u2022", "u00b7", "u25aa"}             \* - • · ▪
LETTERS == UpperSet \cup LowerSet  \* a-zA-Z
DI == "u7b2c"                                           \* 第
ZHANG_JIE == {"u7ae0", "u8282"}                         \* 章节

\* ^[\s]*第[一二三四五六七八九十\d]+[marks]
ChapterRe(marks) == <<Star(WS), One({DI}), Plus(CN10 \cup DIGITS), One(marks)>>

COMPOSITION_PATTERNS == <<
    \* 投标文件.*(?:组成|构成|包[含括]|内容)
    << {<<"u6295", "u6807", "u6587", "u4ef6">>},
       {<<"u7ec4", "u6210">>, <<"u6784", "u6210">>, <<"u5305", "u542b">>,
        <<"u5305", "u62ec">>, <<"u5185", "u5bb9">>} >>,
    \* 投标文件.*(?:应当|应|须|需|必须).*(?:包[含括]|由.*组成), the branch 包[含括]
    << {<<"u6295", "u6807", "u6587", "u4ef6">>},
       {<<"u5e94", "u5f53">>, <<"u5e94">>, <<"u987b">>, <<"u9700">>, <<"u5fc5", "u987b">>},
       {<<"u5305", "u542b">>, <<"u5305", "u62ec">>} >>,
    \* the same expression, the branch 由.*组成
    << {<<"u6295", "u6807", "u6587", "u4ef6">>},
       {<<"u5e94", "u5f53">>, <<"u5e94">>, <<"u987b">>, <<"u9700">>, <<"u5fc5", "u987b">>},
       {<<"u7531">>}, {<<"u7ec4", "u6210">>} >>,
    \* (?:投标|响应).*文件.*(?:目录|清单)
    << {<<"u6295", "u6807">>, <<"u54cd", "u5e94">>}, {<<"u6587", "u4ef6">>},
       {<<"u76ee", "u5f55">>, <<"u6e05", "u5355">>} >>,
    \* (?:投标|响应).*(?:须知|要求).*(?:组成|构成)
    << {<<"u6295", "u6807">>, <<"u54cd", "u5e94">>},
       {<<"u987b", "u77e5">>, <<"u8981", "u6c42">>},
       {<<"u7ec4", "u6210">>, <<"u6784", "u6210">>} >>
>>

FORMAT_CHAPTER_PATTERNS == <<
    << {<<"u6295", "u6807", "u6587", "u4ef6", "u683c", "u5f0f">>} >>,       \* 投标文件格式
    << {<<"u6295", "u6807", "u6587", "u4ef6">>}, {<<"u683c", "u5f0f">>} >>, \* 投标文件.*格式
    << {<<"u54cd", "u5e94", "u6587", "u4ef6", "u683c", "u5f0f">>} >>        \* 响应文件格式
>>

NUMBERED_ITEM_PATTERNS == <<
    \* ^[\s]*[（(]\s*[一二三四五六七八九十]+\s*[）)]
    <<Star(WS), One(LPAREN), Star(WS), Plus(CN10), Star(WS), One(RPAREN)>>,
    \* ^[\s]*[（(]?\s*(\d+)\s*[）).]
    <<Star(WS), Opt(LPAREN), Star(WS), Plus(DIGITS), Star(WS), One(RPAREN \cup {"."})>>,
    \* ^[\s]*([一二三四五六七八九十]+)\s*[、.]
    <<Star(WS), Plus(CN10), Star(WS), One({"u3001", "."})>>,
    \* ^[\s]*(\d+\.\d+)
    <<Star(WS), Plus(DIGITS), One({"."}), Plus(DIGITS)>>,
    \* ^[\s]*[①②③④⑤⑥⑦⑧⑨⑩]
    <<Star(WS), One(CIRCLED)>>,
    \* ^[\s]*[\-\•\·\▪]
    <<Star(WS), One(BULLETS)>>,
    \* ^[\s]*[a-zA-Z]\s*[）).]
    <<Star(WS), One(LETTERS), Star(WS), One(RPAREN \cup {"."})>>
>>

\* ^[\s]*[一二三四五六七八九十]+、.*(?:部分|篇): the part before .*
PART_HEADING_PREFIX == <<Star(WS), Plus(CN10), One({"u3001"})>>
PART_HEADING_SUFFIX == {<<"u90e8", "u5206">>, <<"u7bc7">>}              \* 部分 篇

\* The ends $ matches at: the end of the text, and the place before a line
\* feed that ends it
DollarEnds(text) ==
    {Len(text)} \cup (IF Len(text) > 0 /\ text[Len(text)] = NEWLINE
                      THEN {Len(text) - 1} ELSE {})

\* _is_toc_line: \t\d+$ is found, or ^.*\s{3,}\d+$ matches.  With the digits
\* text[b+1..e] and the white space text[c+1..b] before them, .* has to take
\* text[1..c] at least, and takes it iff it holds no line feed.
is_toc_line(text) ==
    \E e \in DollarEnds(text) :
        LET b == SkipClassBack(text, e, DIGITS)
            c == SkipClassBack(text, b, WS)
        IN /\ b < e
           /\ \/ b >= 1 /\ text[b] = TAB
              \/ b - c >= 3 /\ LineEnd(text, 1) > c

\* _is_numbered_item
is_numbered_item(text) ==
    \E k \in 1..Len(NUMBERED_ITEM_PATTERNS) :
        ReMatchEnd(NUMBERED_ITEM_PATTERNS[k], text) # 0

\* _is_part_heading
is_part_heading(text) ==
    LET e == ReMatchEnd(PART_HEADING_PREFIX, text)
    IN e # 0 /\ FindAnyEnd(SubSeq(text, 1, LineEnd(text, e) - 1),
                           PART_HEADING_SUFFIX, e) # 0

\* _clean_item_prefix: the six prefixes are removed one after the other
CLEAN_PREFIXES == <<
    \* ^[\s]*[（(]\s*[一二三四五六七八九十\d]+\s*[）)]\s*
    <<Star(WS), One(LPAREN), Star(WS), Plus(CN10 \cup DIGITS), Star(WS),
      One(RPAREN), Star(WS)>>,
    \* ^[\s]*[一二三四五六七八九十]+\s*[、.\s]+   (\s*[、.\s]+ is [、.\s]+)
    <<Star(WS), Plus(CN10), Plus(WS \cup {"u3001", "."})>>,
    \* ^[\s]*\d+\s*[.)、]\s*
    <<Star(WS), Plus(DIGITS), Star(WS), One({".", ")", "u3001"}), Star(WS)>>,
    \* ^[\s]*[①②③④⑤⑥⑦⑧⑨⑩]\s*
    <<Star(WS), One(CIRCLED), Star(WS)>>,
    \* ^[\s]*[\-\•\·\▪]\s*
    <<Star(WS), One(BULLETS), Star(WS)>>,
    \* ^[\s]*[a-zA-Z]\s*[）).]\s*
    <<Star(WS), One(LETTERS), Star(WS), One(RPAREN \cup {"."}), Star(WS)>>
>>

RECURSIVE CleanFrom(_, _)
CleanFrom(text, k) ==
    IF k > Len(CLEAN_PREFIXES) THEN text
    ELSE CleanFrom(ReSubPrefix(CLEAN_PREFIXES[k], text), k + 1)

clean_item_prefix(text) == Strip(CleanFrom(text, 1))

(***************************************************************************)
(* tender_parser.py: text extraction and the composition section           *)
(*                                                                         *)
(* A list index of the model is the Python index plus one; a slice         *)
(* paragraphs[a:b] is SubSeq(paragraphs, a, b - 1) for the model's a, b.   *)
(***************************************************************************)
\* An uploaded file: its extension (lower case, without the dot), whether the
\* library opens it as a container of that extension, and its content, the
\* body children of a .docx or the text chunks, tables and page breaks of a
\* .pdf.
File(ext, opens, body) == [ext |-> ext, opens |-> opens, body |-> body]

\* What a call gives back when an exception leaves it
Raised == [raised |-> TRUE]
IsRaised(r) == r = Raised

\* The stripped, non-empty texts of a sequence of paragraphs
RECURSIVE NonEmptyTexts(_)
NonEmptyTexts(paras) ==
    IF Len(paras) = 0 THEN <<>>
    ELSE LET text == Strip(Head(paras).text)
         IN (IF Len(text) > 0 THEN <<text>> ELSE <<>>) \o NonEmptyTexts(Tail(paras))

\* The texts of the cells of a sequence of tables: table by table, row by
\* row, cell by cell
CellTexts(tables) ==
    Concat([t \in 1..Len(tables) |-> Concat(tables[t].rows)])

DedupWindow == 10       \* paragraphs[-10:]

\* extract_text_from_docx, the loop over the cells: a stripped text that is
\* not empty is appended unless it is among the last ten of the list
RECURSIVE AppendCells(_, _)
AppendCells(paragraphs, cells) ==
    IF Len(cells) = 0 THEN paragraphs
    ELSE AppendCells(
             IF /\ Len(Strip(Head(cells))) > 0
                /\ \A k \in 1..Len(paragraphs) :
                       k > Len(paragraphs) - DedupWindow
                           => paragraphs[k] # Strip(Head(cells))
             THEN Append(paragraphs, Strip(Head(cells)))
             ELSE paragraphs,
             Tail(cells))

\* extract_text_from_docx: doc.paragraphs, then doc.tables
extract_text_from_docx(body) ==
    AppendCells(NonEmptyTexts(Paragraphs(body)), CellTexts(SelectSeq(body, IsTable)))

\* The pages of a .pdf: the elements up to each page break
RECURSIVE Pages(_, _)
Pages(body, page) ==
    IF Len(body) = 0 THEN <<page>>
    ELSE IF Head(body).kind = "pb" THEN <<page>> \o Pages(Tail(body), <<>>)
    ELSE Pages(Tail(body), Append(page, Head(body)))

\* The stripped, non-empty lines of page.extract_text()
RECURSIVE PageLines(_)
PageLines(paras) ==
    IF Len(paras) = 0 THEN <<>>
    ELSE SelectSeq([k \in 1..Len(SplitOn(Head(paras).text, NEWLINE)) |->
                       Strip(SplitOn(Head(paras).text, NEWLINE)[k])],
                   LAMBDA l : Len(l) > 0)
         \o PageLines(Tail(paras))

\* The stripped cells of page.extract_tables() that are not empty
PageCells(tables) ==
    SelectSeq([k \in 1..Len(CellTexts(tables)) |-> Strip(CellTexts(tables)[k])],
              LAMBDA c : Len(c) > 0)

\* extract_text_from_pdf: page by page, the lines and then the tables
extract_text_from_pdf(body) ==
    Concat([k \in 1..Len(Pages(body, <<>>)) |->
                PageLines(Paragraphs(Pages(body, <<>>)[k]))
                \o PageCells(SelectSeq(Pages(body, <<>>)[k], IsTable))])

\* extract_text_from_docx / extract_text_from_pdf: Document(filepath) and
\* pdfplumber.open(filepath) raise on a file they cannot open, and neither
\* function catches: the call gives the paragraphs of a file that opens, and
\* the exception leaves the caller otherwise.  The callers hand a .docx to
\* the first and a .pdf to the second.
ExtractRaises(file) == ~file.opens
extract_text(file) ==
    IF file.ext = "pdf" THEN extract_text_from_pdf(file.body)
    ELSE extract_text_from_docx(file.body)

\* The least i in 1..n with P(i), 0 when there is none
FirstWhere(n, P(_)) ==
    IF \E i \in 1..n : P(i)
    THEN CHOOSE i \in 1..n : P(i) /\ \A j \in 1..(i - 1) : ~P(j)
    ELSE 0

IsChapterLine(text, marks) == ReMatchEnd(ChapterRe(marks), text) # 0

\* The index of the next chapter heading (not a contents line) after `start`,
\* the index after the last paragraph when there is none
ChapterEnd(paragraphs, start) ==
    LET IsNext(j) == /\ j > start
                     /\ IsChapterLine(paragraphs[j], ZHANG_JIE)
                     /\ ~is_toc_line(paragraphs[j])
        j == FirstWhere(Len(paragraphs), IsNext)
    IN IF j = 0 THEN Len(paragraphs) + 1 ELSE j

ScanWindow == 60        \* paragraphs a composition list is looked for in
ShortLine == 50         \* a line shorter than this extends the list
MaxNonItems == 5        \* consecutive lines that are no items, before the scan stops
MAJOR_MARKS == {"u7ae0", "u8282", "u90e8", "u5206", "u6761"}    \* 章节部分条

\* The scan below a composition paragraph at index i: j is the line read,
\* end_idx the end found so far
RECURSIVE CompositionScan(_, _, _, _, _)
CompositionScan(paragraphs, i, j, end_idx, consecutive_non_item) ==
    IF j > Min2(i + ScanWindow - 1, Len(paragraphs)) THEN end_idx
    ELSE LET t == paragraphs[j]
             end2 == IF Len(t) < ShortLine THEN j + 1 ELSE end_idx
         IN IF IsChapterLine(t, MAJOR_MARKS) /\ j > i + 2 THEN end_idx
            ELSE IF is_numbered_item(t)
                 THEN CompositionScan(paragraphs, i, j + 1, j + 1, 0)
            ELSE IF consecutive_non_item + 1 > MaxNonItems THEN end2
            ELSE CompositionScan(paragraphs, i, j + 1, end2, consecutive_non_item + 1)

NotFound == [start_idx |-> 0, end_idx |-> 0, strategy |-> "none"]

\* find_composition_section: (start_idx, end_idx, strategy)
find_composition_section(paragraphs) ==
    LET IsFormatStart(i) ==
            LET text == paragraphs[i]
            IN /\ ~is_toc_line(text)
               /\ \E k \in 1..Len(FORMAT_CHAPTER_PATTERNS) :
                      ReSearch(FORMAT_CHAPTER_PATTERNS[k], text)
               /\ IsChapterLine(text, ZHANG_JIE)
        IsComposition(i) ==
            LET text == paragraphs[i]
            IN /\ ~is_toc_line(text)
               /\ \E k \in 1..Len(COMPOSITION_PATTERNS) :
                      ReSearch(COMPOSITION_PATTERNS[k], text)
        format_start == FirstWhere(Len(paragraphs), IsFormatStart)
        comp == FirstWhere(Len(paragraphs), IsComposition)
    IN IF format_start # 0
       THEN [start_idx |-> format_start,
             end_idx |-> ChapterEnd(paragraphs, format_start),
             strategy |-> "format_chapter"]
       ELSE IF comp # 0
       THEN [start_idx |-> comp,
             end_idx |-> CompositionScan(paragraphs, comp, comp + 1, comp + 1, 0),
             strategy |-> "composition"]
       ELSE NotFound

ItemMaxLen == 80        \* an item, or a continuation line, is shorter than this

\* re.sub(r'[\s（()）]', '', s)
DedupKey(s) == SelectSeq(s, LAMBDA c : c \notin WS \cup LPAREN \cup RPAREN)

\* _extract_from_format_chapter: the loop from index i on
RECURSIVE FormatChapterItems(_, _, _, _, _)
FormatChapterItems(paragraphs, i, end_idx, items, seen_names) ==
    IF i >= end_idx THEN items
    ELSE LET text == paragraphs[i]
             Cleaned(cleaned, key) ==
                 IF is_part_heading(text)
                 THEN FormatChapterItems(paragraphs, i + 1, end_idx, items, seen_names)
                 ELSE IF /\ ReMatchEnd(NUMBERED_ITEM_PATTERNS[1], text) # 0
                         /\ Len(cleaned) > 0 /\ Len(cleaned) < ItemMaxLen
                         /\ key \notin seen_names
                 THEN FormatChapterItems(paragraphs, i + 1, end_idx,
                                         Append(items, cleaned), seen_names \cup {key})
                 ELSE FormatChapterItems(paragraphs, i + 1, end_idx, items, seen_names)
         IN Cleaned(clean_item_prefix(text), DedupKey(clean_item_prefix(text)))

\* _extract_from_composition: the loop from index i on; current_item is <<>>
\* for None
RECURSIVE CompositionItems(_, _, _, _, _)
CompositionItems(paragraphs, i, end_idx, items, current_item) ==
    IF i >= end_idx
    THEN IF Len(current_item) > 0 THEN Append(items, current_item) ELSE items
    ELSE LET text == paragraphs[i]
             Cleaned(cleaned) ==
                 IF is_numbered_item(text)
                 THEN CompositionItems(paragraphs, i + 1, end_idx,
                          IF Len(current_item) > 0 THEN Append(items, current_item) ELSE items,
                          IF Len(cleaned) > 0 THEN cleaned ELSE current_item)
                 ELSE CompositionItems(paragraphs, i + 1, end_idx, items,
                          IF Len(current_item) > 0 /\ Len(text) < ItemMaxLen
                          THEN current_item \o <<" ">> \o text ELSE current_item)
         IN Cleaned(clean_item_prefix(text))

\* extract_section_items
extract_section_items(paragraphs, start_idx, end_idx, strategy) ==
    IF strategy = "format_chapter"
    THEN FormatChapterItems(paragraphs, start_idx + 1, end_idx, <<>>, {})
    ELSE CompositionItems(paragraphs, start_idx + 1, end_idx, <<>>, <<>>)

(***************************************************************************)
(* tender_parser.py: the parse entry points                                *)
(*                                                                         *)
(* A result is the record the function returns, or Raised.  A text made of *)
(* lines ('\n'.join) is the sequence of its lines; a message is the tuple  *)
(* of the tags of its parts.  A dict is the function of its keys.          *)
(***************************************************************************)
TENDER_FORMATS == {"docx", "pdf"}       \* the extensions .docx and .pdf
ContextLines == 30                      \* lines of raw_context at most

TenderFailure(raw_context, message) ==
    [success |-> FALSE, sections |-> <<>>, raw_context |-> raw_context,
     message |-> message]

\* The classified section list of the items
ClassifiedSections(items) ==
    [i \in 1..Len(items) |->
        LET Classified(c) ==
                [order |-> i, section_name |-> items[i], section_type |-> c.type,
                 category |-> c.category, match_score |-> c.score,
                 original_text |-> items[i]]
        IN Classified(classify_section(items[i]))]

\* paragraphs[start_idx:min(start_idx + 30, end_idx)]
RawContext(paragraphs, start_idx, end_idx) ==
    SubSeq(paragraphs, start_idx, Min2(start_idx + ContextLines, end_idx) - 1)

\* parse_tender_file, once the items of the section found are extracted
TenderListed(raw_context, items) ==
    IF Len(items) = 0
    THEN TenderFailure(raw_context, <<"no_items">>)
    ELSE [success |-> TRUE, sections |-> ClassifiedSections(items),
          raw_context |-> raw_context, message |-> <<"ok">>]

\* parse_tender_file, once find_composition_section has answered
TenderLocated(paragraphs, found) ==
    IF found.start_idx = 0
    THEN TenderFailure(<<>>, <<"not_found">>)
    ELSE TenderListed(RawContext(paragraphs, found.start_idx, found.end_idx),
                      extract_section_items(paragraphs, found.start_idx,
                                            found.end_idx, found.strategy))

\* parse_tender_file, once the text is extracted
TenderExtracted(paragraphs) ==
    IF Len(paragraphs) = 0 THEN TenderFailure(<<>>, <<"no_text">>)
    ELSE TenderLocated(paragraphs, find_composition_section(paragraphs))

\* parse_tender_file(filepath)
parse_tender_file(file) ==
    IF file.ext \notin TENDER_FORMATS THEN TenderFailure(<<>>, <<"unsupported">>)
    ELSE IF ExtractRaises(file) THEN Raised
    ELSE TenderExtracted(extract_text(file))

\* _find_format_split: the index of the first paragraph, not a contents line,
\* that opens the format chapter; 0 for (None, None)
find_format_split(paragraphs) ==
    LET chapter == ChapterRe(ZHANG_JIE) \o <<Star(WS)>>
        IsSplit(i) ==
            LET text == paragraphs[i]
                \* ^[\s]*第[..]+[章节]\s*投标.*格式
                e == ReMatchEnd(chapter \o Lit(<<"u6295", "u6807">>), text)
            IN /\ ~is_toc_line(text)
               /\ \* ^[\s]*第[..]+[章节]\s*投标文件格式
                  \/ ReMatchEnd(chapter \o Lit(<<"u6295", "u6807", "u6587", "u4ef6",
                                                "u683c", "u5f0f">>), text) # 0
                  \/ e # 0 /\ FindEnd(SubSeq(text, 1, LineEnd(text, e) - 1),
                                      <<"u683c", "u5f0f">>, e) # 0
                  \* ^[\s]*第[..]+[章节]\s*响应文件格式
                  \/ ReMatchEnd(chapter \o Lit(<<"u54cd", "u5e94", "u6587", "u4ef6",
                                                "u683c", "u5f0f">>), text) # 0
    IN FirstWhere(Len(paragraphs), IsSplit)

\* 投标须知 招标公告 资格 评分标准 评审 技术要求 商务要求 合同条款 投标人须知
REQ_CHAPTER_KEYWORDS == {
    <<"u6295", "u6807", "u987b", "u77e5">>, <<"u62db", "u6807", "u516c", "u544a">>,
    <<"u8d44", "u683c">>, <<"u8bc4", "u5206", "u6807", "u51c6">>, <<"u8bc4", "u5ba1">>,
    <<"u6280", "u672f", "u8981", "u6c42">>, <<"u5546", "u52a1", "u8981", "u6c42">>,
    <<"u5408", "u540c", "u6761", "u6b3e">>,
    <<"u6295", "u6807", "u4eba", "u987b", "u77e5">> }

\* _find_requirements_range: (req_start, req_end).  A format chapter at
\* Python index 0 is falsy, and the range then ends at the document's end.
find_requirements_range(paragraphs, format_start) ==
    LET IsReqChapter(i) ==
            /\ ~is_toc_line(paragraphs[i])
            /\ IsChapterLine(paragraphs[i], ZHANG_JIE)
            /\ \E kw \in REQ_CHAPTER_KEYWORDS : Contains(paragraphs[i], kw)
        first == FirstWhere(Len(paragraphs), IsReqChapter)
    IN [req_start |-> IF first = 0 THEN 1 ELSE first,
        req_end |-> IF format_start # 1 THEN format_start ELSE Len(paragraphs) + 1]

\* items[:n]
Take(items, n) == SubSeq(items, 1, Min2(n, Len(items)))

\* [\u4e00-\u9fff]: the characters u4e00 to u4fff and u5000 to u9fff
CJK_CHARS ==
    {"u4" \o h2 \o h3 \o h4 : h2 \in {"e", "f"}, h3 \in HEX, h4 \in HEX}
    \cup {"u" \o h1 \o h2 \o h3 \o h4 :
              h1 \in {"5", "6", "7", "8", "9"}, h2 \in HEX, h3 \in HEX, h4 \in HEX}
IsCJK(c) == c \in CJK_CHARS

\* The end of the run of CJK characters that starts at i
RECURSIVE CjkEnd(_, _)
CjkEnd(s, i) == IF i > Len(s) \/ ~IsCJK(s[i]) THEN i ELSE CjkEnd(s, i + 1)

\* A text is the sequence of its lines, '' the empty sequence; full_text is
\* the sequence of the paragraphs that '\n' joins.

\* re.findall of the runs of two or more CJK characters (u4e00 to u9fff),
\* from index i on
RECURSIVE CjkRuns(_, _)
RunFrom(s, i, e) ==
    (IF e - i >= 2 THEN <<SubSeq(s, i, e - 1)>> ELSE <<>>) \o CjkRuns(s, e)
CjkRuns(s, i) ==
    IF i > Len(s) THEN <<>>
    ELSE IF IsCJK(s[i]) THEN RunFrom(s, i, CjkEnd(s, i))
    ELSE CjkRuns(s, i + 1)

\* SECTION_KEYWORD_MAP[section_type]['keywords'] when section_type is a key
TypeKeywordsAt(k) == IF k = 0 THEN <<>> ELSE SECTION_KEYWORD_MAP[k].keywords
TypeKeywords(section_type) ==
    IF Len(section_type) = 0 THEN <<>>
    ELSE TypeKeywordsAt(FirstWhere(Len(SECTION_KEYWORD_MAP),
                                   LAMBDA k : SECTION_KEYWORD_MAP[k].type = section_type))

\* keywords of _match_requirements_to_section and of _score_block_match
SectionKeywords(section_name, section_type) ==
    CjkRuns(section_name, 1) \o TypeKeywords(section_type)

\* '\n'.join(paragraphs).split('\n')
SplitLines(paragraphs) ==
    Concat([k \in 1..Len(paragraphs) |-> SplitOn(paragraphs[k], NEWLINE)])

\* not '\n'.join(paragraphs)
JoinedEmpty(paragraphs) ==
    Len(paragraphs) = 0 \/ (Len(paragraphs) = 1 /\ Len(paragraphs[1]) = 0)

HasKeyword(line, keywords) == \E j \in 1..Len(keywords) : Contains(line, keywords[j])

\* matched_lines: the stripped lines that hold a keyword
MatchedLines(lines, keywords) ==
    SelectSeq([k \in 1..Len(lines) |-> Strip(lines[k])],
              LAMBDA line : Len(line) > 0 /\ HasKeyword(line, keywords))

\* _match_requirements_to_section(requirements_text, section_name, section_type)
ScanWith(requirements_text, keywords) ==
    IF JoinedEmpty(requirements_text) \/ Len(keywords) = 0 THEN <<>>
    ELSE Take(MatchedLines(SplitLines(requirements_text), keywords), 10)
match_requirements_to_section(requirements_text, section_name, section_type) ==
    ScanWith(requirements_text, SectionKeywords(section_name, section_type))

DualFailure(message) ==
    [success |-> FALSE, requirements |-> <<>>, format_text |-> <<>>,
     sections |-> <<>>, section_requirements |-> <<>>, raw_context |-> <<>>,
     message |-> message]

\* The dict of the fallback: the text matched for each section of the
\* single-file parser, under its name; sec.get('section_type', '') is the
\* type, every section of that parser having one
FallbackRequirements(sections, requirements) ==
    [key \in {sections[k].section_name : k \in 1..Len(sections)} |->
        match_requirements_to_section(
            requirements, key,
            sections[CHOOSE k \in 1..Len(sections) :
                        /\ sections[k].section_name = key
                        /\ \A j \in (k + 1)..Len(sections) :
                              sections[j].section_name # key].section_type)]

\* The result of the single-file parser, with the texts of the dual one
DualMerged(fallback, requirements, format_text, suffix) ==
    IF IsRaised(fallback) THEN Raised
    ELSE [success |-> fallback.success, requirements |-> requirements,
          format_text |-> format_text, sections |-> fallback.sections,
          section_requirements |->
              IF Len(suffix) > 0 THEN <<>>
              ELSE FallbackRequirements(fallback.sections, requirements),
          raw_context |-> fallback.raw_context,
          message |-> fallback.message \o suffix]

\* fallback = parse_tender_file(filepath)
DualFallback(file, requirements, format_text, suffix) ==
    DualMerged(parse_tender_file(file), requirements, format_text, suffix)

\* The sections of the format chapter, each with the text matched for it
DualSections(items, requirements) ==
    [i \in 1..Len(items) |->
        [order |-> i, section_name |-> items[i],
         section_type |-> classify_section(items[i]).type,
         category |-> classify_section(items[i]).category,
         match_score |-> classify_section(items[i]).score,
         original_text |-> items[i],
         requirement_text |->
             match_requirements_to_section(requirements, items[i],
                                           classify_section(items[i]).type)]]

\* The keys section i writes: the item, then the type
DualKeys(sections, i) == {sections[i].section_name, sections[i].section_type}

\* section_requirements: each key holds the text of the last section that
\* wrote it
DualRequirements(sections) ==
    [key \in UNION {DualKeys(sections, i) : i \in 1..Len(sections)} |->
        sections[CHOOSE i \in 1..Len(sections) :
                    /\ key \in DualKeys(sections, i)
                    /\ \A j \in (i + 1)..Len(sections) :
                          key \notin DualKeys(sections, j)].requirement_text]

\* parse_tender_file_dual, once the items of the format chapter are extracted
DualListed(file, paragraphs, split_idx, format_end, requirements, format_text, items) ==
    IF Len(items) = 0
    THEN DualFallback(file, requirements, format_text, <<>>)
    ELSE [success |-> TRUE, requirements |-> requirements,
          format_text |-> format_text,
          sections |-> DualSections(items, requirements),
          section_requirements |->
              DualRequirements(DualSections(items, requirements)),
          raw_context |-> RawContext(paragraphs, split_idx, format_end),
          message |-> <<"ok_dual">>]

\* parse_tender_file_dual, once the requirements range and the end of the
\* format chapter are known
DualRanged(file, paragraphs, split_idx, range, format_end) ==
    DualListed(file, paragraphs, split_idx, format_end,
               SubSeq(paragraphs, range.req_start, range.req_end - 1),
               SubSeq(paragraphs, split_idx, format_end - 1),
               extract_section_items(paragraphs, split_idx, format_end,
                                     "format_chapter"))

\* parse_tender_file_dual, once _find_format_split has answered
DualSplit(file, paragraphs, split_idx) ==
    IF split_idx = 0 THEN DualFallback(file, <<>>, <<>>, <<"single_mode">>)
    ELSE DualRanged(file, paragraphs, split_idx,
                    find_requirements_range(paragraphs, split_idx),
                    ChapterEnd(paragraphs, split_idx))

\* parse_tender_file_dual, once the text is extracted
DualExtracted(file, paragraphs) ==
    IF Len(paragraphs) = 0 THEN DualFailure(<<"no_text">>)
    ELSE DualSplit(file, paragraphs, find_format_split(paragraphs))

\* parse_tender_file_dual(filepath)
parse_tender_file_dual(file) ==
    IF file.ext \notin TENDER_FORMATS THEN DualFailure(<<"unsupported">>)
    ELSE IF ExtractRaises(file) THEN Raised
    ELSE DualExtracted(file, extract_text(file))

\* The chapter_patterns of _split_into_requirement_blocks, each up to the
\* \s*(.+) that ends it
TITLE_PREFIXES == <<
    \* ^[\s]*第[一二三四五六七八九十\d]+[章节条]
    ChapterRe({"u7ae0", "u8282", "u6761"}),
    \* ^[\s]*[一二三四五六七八九十]+\s*[、.．]
    <<Star(WS), Plus(CN10), Star(WS), One(SEPS)>>,
    \* ^[\s]*[（(]\s*[一二三四五六七八九十]+\s*[）)]
    <<Star(WS), One(LPAREN), Star(WS), Plus(CN10), Star(WS), One(RPAREN)>>,
    \* ^[\s]*\d+\s*[、.．]
    <<Star(WS), Plus(DIGITS), Star(WS), One(SEPS)>>
>>
\* ^[\s]*\d+\.\d+ , the pattern that ends with \s+(.+)
TITLE_DECIMAL == <<Star(WS), Plus(DIGITS), One({"."}), Plus(DIGITS)>>

\* A line is a title when a pattern matches: \s*(.+) needs one more
\* character that is no line feed after the white space, \s+(.+) white
\* space and one such character.
IsTitle(text) ==
    \/ \E k \in 1..Len(TITLE_PREFIXES) :
          LET e == ReMatchEnd(TITLE_PREFIXES[k], text)
          IN e # 0 /\ DotStart(text, e) # 0
    \/ LET e == ReMatchEnd(TITLE_DECIMAL, text)
       IN e # 0 /\ DotStart(text, e) > e

\* _make_requirement_block.  A keyword has no white space, so it is found in
\* title + ' ' + content iff it is found in the title or in one line.
make_requirement_block(title, content_lines) ==
    [title |-> title, content |-> content_lines,
     keywords |-> {kw \in TaxonomyKeywords :
                      \/ Contains(title, kw)
                      \/ \E i \in 1..Len(content_lines) : Contains(content_lines[i], kw)}]

\* _split_into_requirement_blocks: the loop from index i on
RECURSIVE SplitBlocks(_, _, _, _, _)
SplitBlocks(paragraphs, i, blocks, current_title, current_lines) ==
    LET pending == Len(current_title) > 0 \/ Len(current_lines) > 0
        closed == IF pending
                  THEN Append(blocks, make_requirement_block(current_title, current_lines))
                  ELSE blocks
    IN IF i > Len(paragraphs) THEN closed
       ELSE LET text == Strip(paragraphs[i])
            IN IF Len(text) = 0
               THEN SplitBlocks(paragraphs, i + 1, blocks, current_title, current_lines)
               ELSE IF IsTitle(text)
               THEN SplitBlocks(paragraphs, i + 1, closed, text, <<>>)
               ELSE SplitBlocks(paragraphs, i + 1, blocks, current_title,
                                Append(current_lines, text))

split_dropping_preamble(paragraphs) ==
    SelectSeq(SplitBlocks(paragraphs, 1, <<>>, <<>>, <<>>), LAMBDA b : Len(b.title) > 0)
split_into_requirement_blocks(paragraphs) == SplitBlocks(paragraphs, 1, <<>>, <<>>, <<>>)

RequirementsFailure(message) ==
    [success |-> FALSE, full_text |-> <<>>, requirement_blocks |-> <<>>,
     message |-> message]

\* parse_requirements_file(filepath)
parse_requirements_file(file) ==
    IF file.ext \notin TENDER_FORMATS THEN RequirementsFailure(<<"unsupported">>)
    ELSE IF ExtractRaises(file) THEN Raised
    ELSE LET Extracted(paragraphs) ==
                 IF Len(paragraphs) = 0 THEN RequirementsFailure(<<"no_text">>)
                 ELSE [success |-> TRUE, full_text |-> paragraphs,
                       requirement_blocks |-> split_into_requirement_blocks(paragraphs),
                       message |-> <<"ok">>]
         IN Extracted(extract_text(file))

\* DEFAULT_SECTIONS: (name, type, category)
DEFAULT_SECTIONS == <<
    \* 投标函, 投标函, 投标函模板
    << <<"u6295", "u6807", "u51fd">>,
       <<"u6295", "u6807", "u51fd">>,
       <<"u6295", "u6807", "u51fd", "u6a21", "u677f">> >>,
    \* 分项报价表, 报价表, 报价表
    << <<"u5206", "u9879", "u62a5", "u4ef7", "u8868">>,
       <<"u62a5", "u4ef7", "u8868">>,
       <<"u62a5", "u4ef7", "u8868">> >>,
    \* 法定代表人身份证明及授权委托书, 法定代表人证明, 法定代表人证明
    << <<"u6cd5", "u5b9a", "u4ee3", "u8868", "u4eba", "u8eab", "u4efd", "u8bc1", "u660e", "u53ca", "u6388", "u6743", "u59d4", "u6258", "u4e66">>,
       <<"u6cd5", "u5b9a", "u4ee3", "u8868", "u4eba", "u8bc1", "u660e">>,
       <<"u6cd5", "u5b9a", "u4ee3", "u8868", "u4eba", "u8bc1", "u660e">> >>,
    \* 营业执照, 营业执照, 营业执照
    << <<"u8425", "u4e1a", "u6267", "u7167">>,
       <<"u8425", "u4e1a", "u6267", "u7167">>,
       <<"u8425", "u4e1a", "u6267", "u7167">> >>,
    \* 投标保证金, 投标保证金, 其他
    << <<"u6295", "u6807", "u4fdd", "u8bc1", "u91d1">>,
       <<"u6295", "u6807", "u4fdd", "u8bc1", "u91d1">>,
       <<"u5176", "u4ed6">> >>,
    \* 投标人基本情况表, 基本情况表, 其他
    << <<"u6295", "u6807", "u4eba", "u57fa", "u672c", "u60c5", "u51b5", "u8868">>,
       <<"u57fa", "u672c", "u60c5", "u51b5", "u8868">>,
       <<"u5176", "u4ed6">> >>,
    \* 资质认定证书, CMA证书, CMA证书
    << <<"u8d44", "u8d28", "u8ba4", "u5b9a", "u8bc1", "u4e66">>,
       <<"C", "M", "A", "u8bc1", "u4e66">>,
       <<"C", "M", "A", "u8bc1", "u4e66">> >>,
    \* 信誉承诺书, 信誉承诺书, 信誉承诺书
    << <<"u4fe1", "u8a89", "u627f", "u8bfa", "u4e66">>,
       <<"u4fe1", "u8a89", "u627f", "u8bfa", "u4e66">>,
       <<"u4fe1", "u8a89", "u627f", "u8bfa", "u4e66">> >>,
    \* 项目人员资料, 人员资料, 人员资料
    << <<"u9879", "u76ee", "u4eba", "u5458", "u8d44", "u6599">>,
       <<"u4eba", "u5458", "u8d44", "u6599">>,
       <<"u4eba", "u5458", "u8d44", "u6599">> >>,
    \* 技术方案, 技术方案, 技术方案
    << <<"u6280", "u672f", "u65b9", "u6848">>,
       <<"u6280", "u672f", "u65b9", "u6848">>,
       <<"u6280", "u672f", "u65b9", "u6848">> >>,
    \* 类似项目业绩, 业绩证明, 业绩证明
    << <<"u7c7b", "u4f3c", "u9879", "u76ee", "u4e1a", "u7ee9">>,
       <<"u4e1a", "u7ee9", "u8bc1", "u660e">>,
       <<"u4e1a", "u7ee9", "u8bc1", "u660e">> >>,
    \* 售后服务承诺, 售后服务, 其他
    << <<"u552e", "u540e", "u670d", "u52a1", "u627f", "u8bfa">>,
       <<"u552e", "u540e", "u670d", "u52a1">>,
       <<"u5176", "u4ed6">> >>
>>

\* get_default_sections()
get_default_sections ==
    [i \in 1..Len(DEFAULT_SECTIONS) |->
        [order |-> i, section_name |-> DEFAULT_SECTIONS[i][1],
         section_type |-> DEFAULT_SECTIONS[i][2],
         category |-> DEFAULT_SECTIONS[i][3],
         match_score |-> 100, original_text |-> <<>>]]

(***************************************************************************)
(* Inputs of the format component                                          *)
(***************************************************************************)
MaxBody == 4        \* children of a document body
MaxNumLen == 3      \* characters of a numeral

SeqsUpTo(S, n) == UNION {[1..k -> S] : k \in 0..n}

STYLE_NORMAL == <<"N", "o", "r", "m", "a", "l">>                 \* Normal
STYLE_HEADING1 == <<"H", "e", "a", "d", "i", "n", "g", " ", "1">> \* Heading 1
STYLE_BIAOTI1 == <<"u6807", "u9898", " ", "1">>                  \* 标题 1

TXT_MAJOR == <<"u4e00", "u3001", "u6295", "u6807", "u51fd", "u90e8", "u5206">>  \* 一、投标函部分
TXT_SUB1 == <<"uff08", "u4e00", "uff09", "u6295", "u6807", "u51fd">>            \* （一）投标函
TXT_SUB2 == <<"uff08", "u4e8c", "uff09", "u5206", "u9879", "u62a5", "u4ef7", "u8868">>  \* （二）分项报价表
TXT_BODY == <<"u6b63", "u6587", "u5185", "u5bb9">>                              \* 正文内容
\* A heading with line breaks (w:br) before it, after its mark and in its title
TXT_BROKEN == <<NEWLINE, "u4e00", "u3001", NEWLINE, "u6295", "u6807", "u51fd",
                NEWLINE, "u90e8", "u5206">>                  \* \n一、\n投标函\n部分

\* The children a body is made of.
DocChildren ==
    {Para(TXT_MAJOR, STYLE_NORMAL), Para(TXT_SUB1, STYLE_NORMAL),
     Para(TXT_SUB2, STYLE_NORMAL), Para(TXT_BODY, STYLE_NORMAL),
     Para(TXT_BODY, STYLE_HEADING1), Para(<<>>, STYLE_NORMAL),
     Para(TXT_BROKEN, STYLE_NORMAL), Table}

Docs == {[opens |-> FALSE, body |-> <<>>]} \cup
        {[opens |-> TRUE, body |-> b] : b \in SeqsUpTo(DocChildren, MaxBody)}

\* Numerals: the keys of CN_NUM_MAP and every string of at most MaxNumLen
\* characters of 一 二 十 百 0 1 2.
NumAlphabet == {"u4e00", "u4e8c", "u5341", "u767e", "0", "1", "2"}
NumStrings ==
    {CN_NUM_MAP[i].cn : i \in 1..Len(CN_NUM_MAP)} \cup
    (SeqsUpTo(NumAlphabet, MaxNumLen) \ {<<>>})
NumCore == { <<"u4e00">>, <<"u5341", "u4e8c">>, <<"u4e8c", "u5341">>,
             <<"1">>, <<"1", "2">> }                    \* 一 十二 二十 1 12

NAME_OK == <<"u6295", "u6807", "u51fd">>                          \* 投标函
NAME_COLON == <<"u6295", "u6807", "u51fd", "uff1a", "uff1a">>     \* 投标函：：
NAME_SHORT == <<"A">>                                             \* A
NAME_SHORT_COLON == <<"A", "uff1a">>                              \* A：
NAME_60 == [i \in 1..NameMax |-> "x"]
NAME_61 == [i \in 1..(NameMax + 1) |-> "x"]
NAME_RAW == [i \in 1..MaxRawLen |-> "x"]
NAME_BROKEN == <<"u6295", "u6807", "u51fd", "uff1a", NEWLINE, "u90e8", "u5206">>  \* 投标函：\n部分
NAME_SHORT_BROKEN == <<"A", NEWLINE, "u6295", "u6807", "u51fd">>                 \* A\n投标函
Names == {NAME_OK, NAME_COLON, NAME_SHORT, NAME_SHORT_COLON, NAME_60, NAME_61, NAME_RAW,
          NAME_BROKEN, NAME_SHORT_BROKEN}

Forms == {"sep", "sep_dot", "sep_break", "paren", "paren_ascii", "part", "plain", "note"}
Styles == {STYLE_NORMAL, STYLE_HEADING1, STYLE_BIAOTI1}

\* The text of a paragraph written in a given form.
Compose(form, num, name) ==
    CASE form = "sep"         -> num \o <<"u3001">> \o name                 \* N、Title
      [] form = "sep_dot"     -> num \o <<" ", ".", " ">> \o name           \* N . Title
      [] form = "sep_break"   -> num \o <<NEWLINE, "u3001", NEWLINE>> \o name \* N\n、\nTitle
      [] form = "paren"       -> <<"uff08">> \o num \o <<"uff09">> \o name  \* （N）Title
      [] form = "paren_ascii" -> <<"(", " ">> \o num \o <<" ", ")">> \o name \* ( N )Title
      [] form = "part"        -> <<"u7b2c">> \o num \o <<"u90e8", "u5206", " ">> \o name  \* 第N部分 Title
      [] form = "plain"       -> name
      [] form = "note"        -> <<"u6ce8", "uff1a">> \o num \o <<"u3001">> \o name  \* 注：N、Title

Probes ==
    {[form |-> f, num |-> n, name |-> nm, style |-> st,
      text |-> Strip(Compose(f, n, nm))] :
        f \in Forms, n \in NumStrings, nm \in {NAME_OK}, st \in {STYLE_NORMAL}}
    \cup
    {[form |-> f, num |-> n, name |-> nm, style |-> st,
      text |-> Strip(Compose(f, n, nm))] :
        f \in Forms, n \in NumCore, nm \in Names, st \in Styles}

(***************************************************************************)
(* The format component as a state machine                                 *)
(***************************************************************************)
\* A document is parsed, or one text is matched: the two are not combined.
InitFormat ==
    /\ \/ doc \in Docs /\ probe = None
       \/ doc = None /\ probe \in Probes
    /\ fmt_out = None
    /\ hd_out = None
    /\ cls_text = <<>> /\ cls_out = None /\ cls_prev = None
    /\ tfile = None /\ parse_out = None
    /\ disk = {} /\ clock = 0 /\ registry = None /\ bids = <<>>
    /\ session = None /\ request = None /\ response = None /\ budget = 0
    /\ para = None /\ fill_out = None /\ resolved = None
    /\ job = None /\ filled = None /\ todo = <<>> /\ handled = None
    /\ m_probe = None /\ m_out = None /\ calls = 0
    /\ fmt_sections = <<>> /\ section_requirements = None
    /\ t_probe = None /\ t_out = None

\* parse_format_template(filepath)
ParseFormatTemplate ==
    /\ doc # None
    /\ fmt_out = None
    /\ fmt_out' = parse_format_template(doc)
    /\ UNCHANGED <<doc, probe, hd_out>>

\* _match_heading(text, paragraph)
MatchHeading ==
    /\ probe # None
    /\ hd_out = None
    /\ hd_out' = [op |-> "match_heading",
                  result |-> match_heading(probe.text, probe.style)]
    /\ UNCHANGED <<doc, probe, fmt_out>>

\* _cn_to_int(cn)
CnToInt ==
    /\ probe # None
    /\ hd_out = None
    /\ hd_out' = [op |-> "cn_to_int", result |-> cn_to_int(probe.num)]
    /\ UNCHANGED <<doc, probe, fmt_out>>

(***************************************************************************)
(* The classifier as a state machine                                       *)
(***************************************************************************)
MaxFrags == 2       \* fragments a candidate text is made of


CLS_FRAGMENTS == {
    <<"u5206", "u9879", "u62a5", "u4ef7", "u8868">>,     \* 分项报价表
    <<"u6295", "u6807", "u51fd">>,                       \* 投标函
    <<"u504f", "u5dee", "u8868">>,                       \* 偏差表
    <<"c", "m", "a">>,                                   \* cma
    <<"u7684">> }                                        \* 的

ClsTexts == {Concat(fs) : fs \in SeqsUpTo(CLS_FRAGMENTS, MaxFrags)}

InitClassify ==
    /\ cls_text \in ClsTexts
    /\ cls_out = None
    /\ cls_prev = None
    /\ doc = None /\ probe = None /\ fmt_out = None /\ hd_out = None
    /\ tfile = None /\ parse_out = None
    /\ disk = {} /\ clock = 0 /\ registry = None /\ bids = <<>>
    /\ session = None /\ request = None /\ response = None /\ budget = 0
    /\ para = None /\ fill_out = None /\ resolved = None
    /\ job = None /\ filled = None /\ todo = <<>> /\ handled = None
    /\ m_probe = None /\ m_out = None /\ calls = 0
    /\ fmt_sections = <<>> /\ section_requirements = None
    /\ t_probe = None /\ t_out = None

\* classify_section(text)
ClassifySection ==
    /\ cls_out = None
    /\ cls_out' = classify_section(cls_text)
    /\ UNCHANGED <<cls_text, cls_prev>>

\* An occurrence of a taxonomy keyword is appended to the classified text and
\* the new text is classified.
AddKeywordAndClassify ==
    /\ cls_out # None
    /\ cls_prev = None
    /\ \E kw \in TaxonomyKeywords :
        /\ cls_text' = cls_text \o kw
        /\ cls_out' = classify_section(cls_text \o kw)
    /\ cls_prev' = [text |-> cls_text, out |-> cls_out]

(***************************************************************************)
(* Specifications                                                          *)
(***************************************************************************)
NextFormat ==
    \/ ParseFormatTemplate /\ UNCHANGED <<clsVars, tndVars, appVars, fillVars, fusVars, matVars, reqVars, stpVars>>
    \/ MatchHeading /\ UNCHANGED <<clsVars, tndVars, appVars, fillVars, fusVars, matVars, reqVars, stpVars>>
    \/ CnToInt /\ UNCHANGED <<clsVars, tndVars, appVars, fillVars, fusVars, matVars, reqVars, stpVars>>

SpecFormat == InitFormat /\ [][NextFormat]_vars

NextClassify ==
    \/ ClassifySection /\ UNCHANGED <<fmtVars, tndVars, appVars, fillVars, fusVars, matVars, reqVars, stpVars>>
    \/ AddKeywordAndClassify /\ UNCHANGED <<fmtVars, tndVars, appVars, fillVars, fusVars, matVars, reqVars, stpVars>>

SpecClassify == InitClassify /\ [][NextClassify]_vars

(***************************************************************************)
(* The parse entry points as a state machine                               *)
(***************************************************************************)
MaxLines == 3       \* paragraphs of an uploaded file

LINE_TOC == <<"u7b2c", "u516d", "u7ae0", " ", "u6295", "u6807", "u6587", "u4ef6",
              "u683c", "u5f0f", "u0009", "5", "9">>          \* 第六章 投标文件格式\t59
LINE_FORMAT == <<"u7b2c", "u516d", "u7ae0", " ", "u6295", "u6807", "u6587", "u4ef6",
                 "u683c", "u5f0f">>                          \* 第六章 投标文件格式
LINE_CHAPTER == <<"u7b2c", "u4e03", "u7ae0", " ", "u5408", "u540c", "u6761", "u6b3e">>  \* 第七章 合同条款
LINE_COMPOSITION == <<"u6295", "u6807", "u6587", "u4ef6", "u7684", "u7ec4", "u6210">>  \* 投标文件的组成
LINE_NUMBERED == <<"1", ".", "u8425", "u4e1a", "u6267", "u7167">>                      \* 1.营业执照

\* The texts a file's paragraphs are drawn from
FileLines == {LINE_TOC, LINE_FORMAT, LINE_CHAPTER, LINE_COMPOSITION, LINE_NUMBERED,
              TXT_MAJOR, TXT_SUB1, TXT_BODY, <<>>}

\* The extensions of the uploads: two the parsers support and one they do not
FileExts == {"docx", "pdf", "doc"}

FileBodies == {[i \in 1..Len(ls) |-> Para(ls[i], STYLE_NORMAL)] :
                   ls \in SeqsUpTo(FileLines, MaxLines)}

\* Bodies with tables: a format chapter whose items are the cells of a table,
\* a composition list in a table alone, a cell that repeats a paragraph next
\* to an empty cell, and a table before the text of its page and of the next
\* page
LINE_QUOTE_ITEM == <<"uff08", "u4e8c", "uff09", "u62a5", "u4ef7", "u8868">>     \* （二）报价表
TableBodies == {
    <<Para(LINE_FORMAT, STYLE_NORMAL), TableOf(<< <<TXT_SUB1, LINE_QUOTE_ITEM>> >>)>>,
    <<TableOf(<< <<LINE_COMPOSITION>>, <<LINE_NUMBERED>> >>)>>,
    <<Para(TXT_BODY, STYLE_NORMAL),
      TableOf(<< <<TXT_BODY, <<" ", " ">>, <<NEWLINE>> \o TXT_SUB1 \o <<" ">> >> >>)>>,
    <<TableOf(<< <<LINE_NUMBERED, <<>> >> >>), Para(LINE_COMPOSITION, STYLE_NORMAL)>> }
\* Bodies whose paragraphs hold a line break (w:br): in the title of the
\* format chapter, after the number of the chapter and after the mark of an
\* item, and in the items of a composition list
LINE_FORMAT_BROKEN == <<"u7b2c", "u516d", "u7ae0", " ", "u6295", "u6807", "u6587", "u4ef6",
                        NEWLINE, "u683c", "u5f0f">>          \* 第六章 投标文件\n格式
LINE_FORMAT_BREAK == <<"u7b2c", "u516d", "u7ae0", NEWLINE, "u6295", "u6807", "u6587",
                       "u4ef6", "u683c", "u5f0f">>           \* 第六章\n投标文件格式
BrokenBodies == {
    <<Para(LINE_FORMAT_BROKEN, STYLE_NORMAL), Para(TXT_SUB1, STYLE_NORMAL)>>,
    <<Para(LINE_FORMAT_BREAK, STYLE_NORMAL),
      Para(<<"uff08", "u4e00", "uff09", NEWLINE, "u6295", "u6807", "u51fd">>, STYLE_NORMAL),
      Para(LINE_QUOTE_ITEM, STYLE_NORMAL)>>,
    <<Para(LINE_COMPOSITION, STYLE_NORMAL),
      Para(<<"1", ".", NEWLINE, "u8425", "u4e1a", "u6267", "u7167">>, STYLE_NORMAL),
      Para(<<"2", NEWLINE, ".", "u6295", "u6807", "u51fd">>, STYLE_NORMAL)>> }
PagedBodies == {
    <<TableOf(<< <<LINE_NUMBERED>> >>),
      Para(LINE_FORMAT \o <<NEWLINE, " ">> \o TXT_SUB1, STYLE_NORMAL), PageBreak,
      Para(LINE_QUOTE_ITEM, STYLE_NORMAL)>> }

\* Every readable file, and one unreadable file for each extension
Files == {File(e, TRUE, b) : e \in FileExts,
                                b \in FileBodies \cup TableBodies \cup BrokenBodies} \cup
         {File("pdf", TRUE, b) : b \in PagedBodies} \cup
         {File(e, FALSE, <<>>) : e \in FileExts}

\* The .docx that parse_format_template is handed: Document(filepath) opens
\* a readable .docx package only, and every exception of the open is caught.
AsDocx(file) == [opens |-> file.opens /\ file.ext = "docx", body |-> file.body]

InitTender ==
    /\ tfile \in Files
    /\ parse_out = None
    /\ doc = None /\ probe = None /\ fmt_out = None /\ hd_out = None
    /\ cls_text = <<>> /\ cls_out = None /\ cls_prev = None
    /\ disk = {} /\ clock = 0 /\ registry = None /\ bids = <<>>
    /\ session = None /\ request = None /\ response = None /\ budget = 0
    /\ para = None /\ fill_out = None /\ resolved = None
    /\ job = None /\ filled = None /\ todo = <<>> /\ handled = None
    /\ m_probe = None /\ m_out = None /\ calls = 0
    /\ fmt_sections = <<>> /\ section_requirements = None
    /\ t_probe = None /\ t_out = None

\* parse_format_template(filepath) on the uploaded file
ParseFormatFile ==
    /\ parse_out = None
    /\ parse_out' = [op |-> "parse_format_template",
                     result |-> parse_format_template(AsDocx(tfile))]
    /\ UNCHANGED tfile

\* parse_tender_file(filepath)
ParseTenderFile ==
    /\ parse_out = None
    /\ parse_out' = [op |-> "parse_tender_file", result |-> parse_tender_file(tfile)]
    /\ UNCHANGED tfile

\* parse_tender_file_dual(filepath)
ParseTenderFileDual ==
    /\ parse_out = None
    /\ parse_out' = [op |-> "parse_tender_file_dual",
                     result |-> parse_tender_file_dual(tfile)]
    /\ UNCHANGED tfile

\* parse_requirements_file(filepath)
ParseRequirementsFile ==
    /\ parse_out = None
    /\ parse_out' = [op |-> "parse_requirements_file",
                     result |-> parse_requirements_file(tfile)]
    /\ UNCHANGED tfile

NextTender ==
    \/ ParseFormatFile /\ UNCHANGED <<fmtVars, clsVars, appVars, fillVars, fusVars, matVars, reqVars, stpVars>>
    \/ ParseTenderFile /\ UNCHANGED <<fmtVars, clsVars, appVars, fillVars, fusVars, matVars, reqVars, stpVars>>
    \/ ParseTenderFileDual /\ UNCHANGED <<fmtVars, clsVars, appVars, fillVars, fusVars, matVars, reqVars, stpVars>>
    \/ ParseRequirementsFile /\ UNCHANGED <<fmtVars, clsVars, appVars, fillVars, fusVars, matVars, reqVars, stpVars>>

SpecTender == InitTender /\ [][NextTender]_vars

(***************************************************************************)
(* template_filler.py: placeholder substitution                            *)
(***************************************************************************)
BRACKET_OPEN == {"[", "u3010"}                          \* [ 【
BRACKET_CLOSE == {"]", "u3011"}                         \* ] 】
UNDERSCORE == "_"
UnderlineMin == 3       \* underscores of an underline placeholder at least

\* The index of the first closing bracket at index i or later, 0 for none
RECURSIVE FirstClose(_, _)
FirstClose(s, i) ==
    IF i > Len(s) THEN 0
    ELSE IF s[i] \in BRACKET_CLOSE THEN i ELSE FirstClose(s, i + 1)

\* BRACKET_PLACEHOLDER, [\[【]\s*([^】\]]+?)\s*[】\]], read at index i: the
\* index of the closing bracket of the match, 0 for no match.  The group holds
\* no closing bracket, so the match ends at the first closing bracket after
\* the opening one, and it needs one character in between.
BracketMatchAt(s, i) ==
    LET c == FirstClose(s, i + 1)
    IN IF s[i] \in BRACKET_OPEN /\ c >= i + 2 THEN c ELSE 0

\* group(1).strip(): \s* on both sides leaves the group without white space
\* around it, or with one white space character when nothing else is inside
BracketKey(s, i, c) == Strip(SubSeq(s, i + 1, c - 1))

\* group(1) of the match from i to c: the text between the brackets without
\* the white space around it, and the last white space character when
\* nothing else is inside
BracketGroup(s, i, c) ==
    IF Len(BracketKey(s, i, c)) = 0 THEN <<s[c - 1]>> ELSE BracketKey(s, i, c)

\* The groups of the matches BRACKET_PLACEHOLDER finds in s from index i on,
\* from left to right, none overlapping
RECURSIVE BracketGroups(_, _)
BracketGroups(s, i) ==
    IF i > Len(s) THEN <<>>
    ELSE IF BracketMatchAt(s, i) # 0
         THEN <<BracketGroup(s, i, BracketMatchAt(s, i))>>
              \o BracketGroups(s, BracketMatchAt(s, i) + 1)
         ELSE BracketGroups(s, i + 1)

\* BRACKET_PLACEHOLDER.search(s)
BracketSearch(s) == \E i \in 1..Len(s) : BracketMatchAt(s, i) # 0

\* UNDERLINE_PLACEHOLDER.search(s): _{3,}
UnderlineSearch(s) ==
    \E i \in 1..(Len(s) - UnderlineMin + 1) :
        \A j \in 0..(UnderlineMin - 1) : s[i + j] = UNDERSCORE

\* PLACEHOLDER_FIELD_MAP, in declaration order
PLACEHOLDER_FIELD_MAP == <<
    [key |-> <<"u516c", "u53f8", "u540d", "u79f0">>, field |-> "company_name"],    \* 公司名称
    [key |-> <<"u6295", "u6807", "u4eba", "u540d", "u79f0">>, field |-> "company_name"],    \* 投标人名称
    [key |-> <<"u6295", "u6807", "u4eba">>, field |-> "company_name"],    \* 投标人
    [key |-> <<"u4f9b", "u5e94", "u5546", "u540d", "u79f0">>, field |-> "company_name"],    \* 供应商名称
    [key |-> <<"u5355", "u4f4d", "u540d", "u79f0">>, field |-> "company_name"],    \* 单位名称
    [key |-> <<"u9879", "u76ee", "u540d", "u79f0">>, field |-> "project_name"],    \* 项目名称
    [key |-> <<"u9879", "u76ee", "u7f16", "u53f7">>, field |-> "project_code"],    \* 项目编号
    [key |-> <<"u62db", "u6807", "u7f16", "u53f7">>, field |-> "project_code"],    \* 招标编号
    [key |-> <<"u62db", "u6807", "u4eba">>, field |-> "bidder_name"],    \* 招标人
    [key |-> <<"u91c7", "u8d2d", "u4eba">>, field |-> "bidder_name"],    \* 采购人
    [key |-> <<"u59d4", "u6258", "u5355", "u4f4d">>, field |-> "bidder_name"],    \* 委托单位
    [key |-> <<"u4ee3", "u7406", "u673a", "u6784">>, field |-> "agent_name"],    \* 代理机构
    [key |-> <<"u62db", "u6807", "u4ee3", "u7406">>, field |-> "agent_name"],    \* 招标代理
    [key |-> <<"u6295", "u6807", "u603b", "u4ef7">>, field |-> "total_price"],    \* 投标总价
    [key |-> <<"u6295", "u6807", "u62a5", "u4ef7">>, field |-> "total_price"],    \* 投标报价
    [key |-> <<"u62a5", "u4ef7">>, field |-> "total_price"],    \* 报价
    [key |-> <<"u6700", "u9ad8", "u9650", "u4ef7">>, field |-> "max_price"],    \* 最高限价
    [key |-> <<"u65e5", "u671f">>, field |-> "current_date"],    \* 日期
    [key |-> <<"u5e74", "u6708", "u65e5">>, field |-> "current_date"],    \* 年月日
    [key |-> <<"u6cd5", "u5b9a", "u4ee3", "u8868", "u4eba">>, field |-> "legal_rep"],    \* 法定代表人
    [key |-> <<"u9879", "u76ee", "u8d1f", "u8d23", "u4eba">>, field |-> "project_leader"],    \* 项目负责人
    [key |-> <<"u6280", "u672f", "u8d1f", "u8d23", "u4eba">>, field |-> "tech_leader"],    \* 技术负责人
    [key |-> <<"u670d", "u52a1", "u671f">>, field |-> "service_period"],    \* 服务期
    [key |-> <<"u670d", "u52a1", "u671f", "u9650">>, field |-> "service_period"],    \* 服务期限
    [key |-> <<"u5de5", "u671f">>, field |-> "service_period"]    \* 工期
>>

\* _resolve_placeholder(key, project_data): the exact match, then the first
\* entry in declaration order that holds the key or is held by it, else the
\* key back in brackets
resolve_placeholder(key0, project_data) ==
    LET key == Strip(key0)
        N == Len(PLACEHOLDER_FIELD_MAP)
        Exact(k) == /\ PLACEHOLDER_FIELD_MAP[k].key = key
                    /\ PLACEHOLDER_FIELD_MAP[k].field \in DOMAIN project_data
        Fuzzy(k) == /\ \/ Contains(key, PLACEHOLDER_FIELD_MAP[k].key)
                       \/ Contains(PLACEHOLDER_FIELD_MAP[k].key, key)
                    /\ PLACEHOLDER_FIELD_MAP[k].field \in DOMAIN project_data
        e == FirstWhere(N, Exact)
        f == FirstWhere(N, Fuzzy)
    IN IF e # 0 THEN project_data[PLACEHOLDER_FIELD_MAP[e].field]
       ELSE IF f # 0 THEN project_data[PLACEHOLDER_FIELD_MAP[f].field]
       ELSE <<"[">> \o key \o <<"]">>

\* BRACKET_PLACEHOLDER.sub(lambda m: _resolve_placeholder(m.group(1), ...), s),
\* from index i on: the matches from left to right, none overlapping
RECURSIVE BracketSubFrom(_, _, _)
BracketSubFrom(s, i, project_data) ==
    IF i > Len(s) THEN <<>>
    ELSE LET c == BracketMatchAt(s, i)
         IN IF c # 0
            THEN resolve_placeholder(BracketKey(s, i, c), project_data)
                 \o BracketSubFrom(s, c + 1, project_data)
            ELSE <<s[i]>> \o BracketSubFrom(s, i + 1, project_data)

\* The same substitution with the runs of underscores filled in as well
SubstituteWithUnderlines(s, project_data) ==
    IF UnderlineSearch(s) THEN project_data["company_name"]
    ELSE BracketSubFrom(s, 1, project_data)

\* The text a run is given: the bracket placeholders are substituted, the
\* underscores are left as they are
Substitute(s, project_data) == BracketSubFrom(s, 1, project_data)

\* paragraph.text: the texts of the runs, joined
ParagraphText(runs) == Concat(runs)

\* _replace_cross_run_placeholders: the runs afterwards
replace_cross_run_placeholders(runs, project_data) ==
    LET full_text == ParagraphText(runs)
        new_text == Substitute(full_text, project_data)
    IN IF Len(runs) = 0 \/ new_text = full_text THEN runs
       ELSE [k \in 1..Len(runs) |-> IF k = 1 THEN new_text ELSE <<>>]

\* _replace_paragraph_placeholders: the runs afterwards
replace_paragraph_placeholders(runs, project_data) ==
    LET full_text == ParagraphText(runs)
        single == [k \in 1..Len(runs) |-> Substitute(runs[k], project_data)]
    IN IF Len(full_text) = 0 THEN runs
       ELSE IF ~BracketSearch(full_text) /\ ~UnderlineSearch(full_text) THEN runs
       ELSE IF BracketSearch(ParagraphText(single))
            THEN replace_cross_run_placeholders(single, project_data)
       ELSE single

(***************************************************************************)
(* The wall clock and the folders.  A file of the upload folder is named   *)
(* by its path below UPLOAD_FOLDER, as save_upload returns it and the      *)
(* tables store it; a generated file by its full path, as the column       *)
(* output_file_path stores it.  A folder is there when a file lies in it:  *)
(* os.makedirs(folder, exist_ok=True) makes the folder of a file before    *)
(* the file is saved, and changes no file.                                 *)
(***************************************************************************)
MaxClock == 1       \* seconds of the wall clock in which files are saved

\* str(n) for n >= 0
RECURSIVE Digits(_)
Digits(n) == IF n < 10 THEN <<ToString(n)>>
             ELSE Digits(n \div 10) \o <<ToString(n % 10)>>

\* datetime.now().strftime('%Y%m%d%H%M%S') in second t of the clock, the
\* seconds of one minute
MINUTE == <<"2", "0", "2", "6", "0", "1", "0", "1", "0", "0", "0", "0">>
Timestamp(t) == MINUTE \o (IF t < 10 THEN <<"0">> ELSE <<>>) \o Digits(t)

\* datetime.now().strftime('%Y年%m月%d日') in that minute
CURRENT_DATE ==
    SubSeq(MINUTE, 1, 4) \o <<"u5e74">> \o SubSeq(MINUTE, 5, 6) \o <<"u6708">>
    \o SubSeq(MINUTE, 7, 8) \o <<"u65e5">>

\* config.py: BASE_DIR is the directory of config.py
BASE_DIR == <<"/", "a", "p", "p">>
UPLOAD_FOLDER == BASE_DIR \o <<"/", "u", "p", "l", "o", "a", "d", "s">>
OUTPUT_FOLDER == BASE_DIR \o <<"/", "o", "u", "t", "p", "u", "t">>

\* os.path.join(a, b)
PathJoin(a, b) ==
    IF Len(b) > 0 /\ b[1] = "/" THEN b
    ELSE IF Len(a) = 0 \/ a[Len(a)] = "/" THEN a \o b
    ELSE a \o <<"/">> \o b

\* The index of the last "/" of a path, 0 when it has none
LastSlash(p) ==
    IF \A i \in 1..Len(p) : p[i] # "/" THEN 0
    ELSE CHOOSE i \in 1..Len(p) : p[i] = "/" /\ \A j \in (i + 1)..Len(p) : p[j] # "/"

\* os.path.dirname(p)
Dirname(p) ==
    IF \A i \in 1..LastSlash(p) : p[i] = "/" THEN SubSeq(p, 1, LastSlash(p))
    ELSE SubSeq(p, 1, SkipClassBack(p, LastSlash(p), {"/"}))

\* The content of a file
Content(format, body) == [format |-> format, body |-> body]

\* The files after a document is saved under a path
Written(folder, path, content) ==
    {f \in folder : f.path # path} \cup {[path |-> path, content |-> content]}

\* The path generate_filled_document saves the document under in second t
OutputPath(format_file_path, bid_id, t) ==
    PathJoin(PathJoin(PathJoin(Dirname(format_file_path), <<".", ".">>),
                      <<"o", "u", "t", "p", "u", "t">>),
             <<"b", "i", "d", "_">> \o Digits(bid_id) \o <<"_">> \o Timestamp(t)
             \o <<".", "d", "o", "c", "x">>)

(***************************************************************************)
(* The substitution as a state machine                                     *)
(***************************************************************************)
MaxRuns == 3        \* runs of a paragraph

TO_FILL == <<"[", "u5f85", "u586b", "u5199", "]">>          \* [待填写]

\* _get_project_data for a bid without names, and for one whose notes hold
\* the company name and which has a project name
DEFAULT_DATA ==
    [company_name |-> TO_FILL, project_name |-> TO_FILL, project_code |-> TO_FILL,
     bidder_name |-> TO_FILL, agent_name |-> TO_FILL, total_price |-> TO_FILL,
     max_price |-> TO_FILL,
     current_date |-> CURRENT_DATE,
     legal_rep |-> TO_FILL, project_leader |-> TO_FILL, tech_leader |-> TO_FILL,
     service_period |-> TO_FILL]
ProjectDatas ==
    {DEFAULT_DATA,
     [DEFAULT_DATA EXCEPT !.company_name = <<"A", "C", "M", "E">>,
                          !.project_name = <<"P", "1">>]}

\* The texts a run is drawn from
RunTexts == {
    <<"[">>, <<"]">>,
    <<"u516c", "u53f8", "u540d", "u79f0">>,                 \* 公司名称
    <<"u9644", "u4ef6">>,                                   \* 附件
    <<"u540d", "u79f0">>,                                   \* 名称
    <<"[", "u9644", "u4ef6", "]">>,                         \* [附件]
    <<"_", "_", "_">>,                                      \* ___
    <<" ">>,
    <<"[", "u516c", "u53f8", "u540d", "u79f0", "]">>,       \* [公司名称]
    <<"u3010", " ", "u9879", "u76ee", "u540d", "u79f0", " ", "u3011">>,  \* 【 项目名称 】
    <<"[", " ", "]">>,                                      \* [ ]
    <<>> }

RunLists == SeqsUpTo(RunTexts, MaxRuns)

InitFill ==
    /\ para \in {[runs |-> r, project_data |-> d] : r \in RunLists, d \in ProjectDatas}
    /\ fill_out = None
    /\ resolved = None
    /\ job = None /\ filled = None /\ todo = <<>> /\ handled = None
    /\ m_probe = None /\ m_out = None /\ calls = 0
    /\ fmt_sections = <<>> /\ section_requirements = None
    /\ t_probe = None /\ t_out = None
    /\ doc = None /\ probe = None /\ fmt_out = None /\ hd_out = None
    /\ cls_text = <<>> /\ cls_out = None /\ cls_prev = None
    /\ tfile = None /\ parse_out = None
    /\ disk = {} /\ clock = 0 /\ registry = None /\ bids = <<>>
    /\ session = None /\ request = None /\ response = None /\ budget = 0

\* _replace_paragraph_placeholders(paragraph, project_data)
ReplaceParagraphPlaceholders ==
    /\ fill_out = None
    /\ fill_out' = [runs |-> replace_paragraph_placeholders(para.runs, para.project_data)]
    /\ UNCHANGED <<para, resolved>>

\* The groups BRACKET_PLACEHOLDER finds in a text, as a set
ElementsOf(groups) == {groups[k] : k \in 1..Len(groups)}

\* The keys _replace_paragraph_placeholders hands to _resolve_placeholder:
\* none when it returns early; else the groups found in each run and, when
\* the joined text still holds a placeholder after the runs were
\* substituted, the groups _replace_cross_run_placeholders finds in that
\* joined text.  `single` are the runs after the substitution run by run.
KeysHanded(runs, single) ==
    IF Len(ParagraphText(runs)) = 0 THEN {}
    ELSE IF ~BracketSearch(ParagraphText(runs)) /\ ~UnderlineSearch(ParagraphText(runs))
    THEN {}
    ELSE UNION {ElementsOf(BracketGroups(runs[r], 1)) : r \in 1..Len(runs)}
         \cup (IF BracketSearch(ParagraphText(single))
               THEN ElementsOf(BracketGroups(ParagraphText(single), 1))
               ELSE {})
KeysOf(runs, project_data) ==
    KeysHanded(runs, [k \in 1..Len(runs) |-> Substitute(runs[k], project_data)])

\* _resolve_placeholder(m.group(1), project_data), for a match of the paragraph
ResolvePlaceholder ==
    /\ resolved = None
    /\ \E key \in KeysOf(para.runs, para.project_data) :
           resolved' = [key |-> key,
                        value |-> resolve_placeholder(key, para.project_data)]
    /\ UNCHANGED <<para, fill_out>>

NextFill ==
    \/ ReplaceParagraphPlaceholders /\ UNCHANGED <<fmtVars, clsVars, tndVars, appVars, fusVars, matVars, reqVars, stpVars>>
    \/ ResolvePlaceholder /\ UNCHANGED <<fmtVars, clsVars, tndVars, appVars, fusVars, matVars, reqVars, stpVars>>

SpecFill == InitFill /\ [][NextFill]_vars

(***************************************************************************)
(* template_filler.py: generate_filled_document and pass 2 of              *)
(* fill_template                                                           *)
(***************************************************************************)
\* The body of the document: paragraphs and tables in document order.  A
\* paragraph holds its runs; a table holds its rows, a row its cells, a cell
\* the runs of its first paragraph.  id is the place the element has in the
\* template, 0 for an element put in later.
FPara(id, runs) == [kind |-> "p", id |-> id, runs |-> runs, rows |-> <<>>]
FTable(id, rows) == [kind |-> "tbl", id |-> id, runs |-> <<>>, rows |-> rows]

\* d.strftime("%Y.%m")
strftime_Ym(d) ==
    Digits(d.year) \o <<".">> \o (IF d.month < 10 THEN <<"0">> ELSE <<>>) \o Digits(d.month)

TYPE_PERSONNEL == <<"u4eba", "u5458", "u8d44", "u6599">>                  \* 人员资料
TYPE_PERFORMANCE == <<"u4e1a", "u7ee9", "u8bc1", "u660e">>                \* 业绩证明
TYPE_TECH == <<"u6280", "u672f", "u65b9", "u6848">>                       \* 技术方案
TYPE_OTHER == <<"u5176", "u4ed6">>                                        \* 其他
FORM_TYPES == {
    <<"u6295", "u6807", "u51fd">>,                                        \* 投标函
    <<"u62a5", "u4ef7", "u8868">>,                                        \* 报价表
    <<"u6cd5", "u5b9a", "u4ee3", "u8868", "u4eba", "u8bc1", "u660e">>,    \* 法定代表人证明
    <<"u6388", "u6743", "u59d4", "u6258", "u4e66">> }                     \* 授权委托书
PERSONNEL_HEADER_KEYS == {<<"u59d3", "u540d">>, <<"u5e8f", "u53f7">>, <<"u4eba", "u5458">>}
PERFORMANCE_HEADER_KEYS ==
    {<<"u9879", "u76ee", "u540d", "u79f0">>, <<"u5e8f", "u53f7">>, <<"u4e1a", "u7ee9">>}
WAN_YUAN == <<"u4e07", "u5143">>                                          \* 万元

\* `x or '[待填写]'`
OrToFill(x) == IF Len(x) = 0 THEN TO_FILL ELSE x

\* The name of the last linked person with the role, '[待填写]' when there is none
RECURSIVE NameByRole(_, _, _)
NameByRole(links, n, role) ==
    IF n = 0 THEN TO_FILL
    ELSE IF links[n].role = role /\ links[n].record # None THEN links[n].record.name
    ELSE NameByRole(links, n - 1, role)

\* The unit of the first linked person that has one
CompanyOfLinks(links) ==
    IF FirstWhere(Len(links), LAMBDA k : /\ links[k].record # None
                                         /\ Len(links[k].record.social_security_unit) > 0) = 0
    THEN TO_FILL
    ELSE links[FirstWhere(Len(links),
                          LAMBDA k : /\ links[k].record # None
                                     /\ Len(links[k].record.social_security_unit) > 0)
              ].record.social_security_unit

\* _get_project_data(bid, app_config); max_price is a float with an integral
\* value, the date is that of the clock
get_project_data(b) ==
    [company_name |-> IF Len(b.notes) > 0 THEN b.notes ELSE CompanyOfLinks(b.bid_personnel),
     project_name |-> OrToFill(b.project_name),
     project_code |-> TO_FILL,
     bidder_name |-> OrToFill(b.bidder_name),
     agent_name |-> OrToFill(b.agent_name),
     total_price |-> TO_FILL,
     max_price |-> IF b.max_price = 0 THEN TO_FILL
                   ELSE Digits(b.max_price) \o <<".", "0">> \o WAN_YUAN,
     current_date |-> CURRENT_DATE,
     legal_rep |-> NameByRole(b.bid_personnel, Len(b.bid_personnel),
                              <<"u6cd5", "u5b9a", "u4ee3", "u8868", "u4eba">>),
     project_leader |-> NameByRole(b.bid_personnel, Len(b.bid_personnel),
                                   <<"u9879", "u76ee", "u8d1f", "u8d23", "u4eba">>),
     tech_leader |-> NameByRole(b.bid_personnel, Len(b.bid_personnel),
                                <<"u6280", "u672f", "u8d1f", "u8d23", "u4eba">>),
     service_period |-> OrToFill(b.service_period)]

\* _replace_global_placeholders: every body paragraph and every cell of
\* every table
ReplaceInRow(row, project_data) ==
    [c \in 1..Len(row) |-> replace_paragraph_placeholders(row[c], project_data)]
ReplaceInRows(rows, project_data) ==
    [r \in 1..Len(rows) |-> ReplaceInRow(rows[r], project_data)]
replace_global_placeholders(body, project_data) ==
    [k \in 1..Len(body) |->
        IF IsPara(body[k])
        THEN [body[k] EXCEPT !.runs = replace_paragraph_placeholders(@, project_data)]
        ELSE [body[k] EXCEPT !.rows = ReplaceInRows(@, project_data)]]

\* para_count when the walk over the body reaches element k: the paragraphs
\* before it
ParaCount(body, k) == Cardinality({j \in 1..(k - 1) : IsPara(body[j])})

\* content_start <= para_count <= content_end, for the table at k
TableInRange(body, k, content_start, content_end) ==
    /\ IsTable(body[k])
    /\ content_start <= ParaCount(body, k)
    /\ ParaCount(body, k) <= content_end

\* The first table of the range, 0 when there is none
FirstTableInRange(body, content_start, content_end) ==
    FirstWhere(Len(body), LAMBDA k : TableInRange(body, k, content_start, content_end))

\* _fill_section_tables: the placeholders of every table of the range
fill_section_tables(body, project_data, content_start, content_end) ==
    [k \in 1..Len(body) |->
        IF TableInRange(body, k, content_start, content_end)
        THEN [body[k] EXCEPT !.rows = ReplaceInRows(@, project_data)]
        ELSE body[k]]

\* _set_cell_text_preserve_format: the runs of the cell afterwards
set_cell_text_preserve_format(cell, text) ==
    IF Len(cell) > 0 THEN [k \in 1..Len(cell) |-> IF k = 1 THEN text ELSE <<>>]
    ELSE <<text>>

\* The loop over min(col_count, len(fill_values)) cells of a row
FillRow(row, fill_values) ==
    [c \in 1..Len(row) |->
        IF c <= Len(fill_values) THEN set_cell_text_preserve_format(row[c], fill_values[c])
        ELSE row[c]]

\* ''.join(cells_text) of a row, each cell text stripped
RowText(row) == Concat([c \in 1..Len(row) |-> Strip(Concat(row[c]))])

\* The first row that holds one of the header words, counted from 1; 0 when
\* no row does (header_row_idx stays 0)
HeaderRow(rows, keys) ==
    FirstWhere(Len(rows), LAMBDA i : \E k \in keys : Contains(RowText(rows[i]), k))

\* data_start, counted from 1
DataStart(rows, keys) == IF HeaderRow(rows, keys) = 0 THEN 2 ELSE HeaderRow(rows, keys) + 1

\* The rows once the records are written from data_start on: a row that is
\* there is filled, a row that is not is a copy of the template row as it is
\* by then (it already holds the first record)
FillFrom(rows, records, data_start) ==
    IF data_start > Len(rows) THEN rows
    ELSE [i \in 1..Max2(Len(rows), data_start + Len(records) - 1) |->
            IF i < data_start \/ i >= data_start + Len(records) THEN rows[i]
            ELSE IF i <= Len(rows) THEN FillRow(rows[i], records[i - data_start + 1])
            ELSE FillRow(FillRow(rows[data_start], records[1]), records[i - data_start + 1])]

\* The rows that are there are filled and no row is added
fill_table_no_clone(rows, records, keys) ==
    IF Len(rows) < 2 THEN rows
    ELSE SubSeq(FillFrom(rows, records, DataStart(rows, keys)), 1, Len(rows))

\* _fill_personnel_table / _fill_performance_table: the rows afterwards
fill_table(rows, records, keys) ==
    IF Len(rows) < 2 THEN rows ELSE FillFrom(rows, records, DataStart(rows, keys))

\* The table at k filled, the body as it is when k = 0
FillTableAt(body, k, records, keys) ==
    IF k = 0 THEN body ELSE [body EXCEPT ![k].rows = fill_table(@, records, keys)]

\* The links of the bid that hold a record
Linked(links) == SelectSeq(links, LAMBDA bp : bp.record # None)

\* fill_values of the idx-th linked person (idx from 1)
PersonValues(bp, idx) ==
    <<Digits(idx), bp.record.name, bp.role, bp.record.title, bp.record.phone>>

\* f'{p.contract_amount}万元' if p.contract_amount else '': the amount is a
\* float with an integral value
AmountText(contract_amount) ==
    IF contract_amount = 0 THEN <<>>
    ELSE Digits(contract_amount) \o <<".", "0">> \o WAN_YUAN

PeriodText(p) ==
    IF p.service_start # None /\ p.service_end # None
    THEN strftime_Ym(p.service_start) \o <<"-">> \o strftime_Ym(p.service_end)
    ELSE <<>>

\* fill_values of the idx-th linked performance
PerformanceValues(bp, idx) ==
    <<Digits(idx), bp.record.project_name, bp.record.client_name,
      AmountText(bp.record.contract_amount), PeriodText(bp.record)>>

PersonRecords(linked) == [i \in 1..Len(linked) |-> PersonValues(linked[i], i)]
PerformanceRecords(linked) == [i \in 1..Len(linked) |-> PerformanceValues(linked[i], i)]

\* _fill_personnel_section
fill_personnel_section(body, bid_personnel, content_start, content_end) ==
    IF Len(Linked(bid_personnel)) = 0 THEN body
    ELSE FillTableAt(body, FirstTableInRange(body, content_start, content_end),
                     PersonRecords(Linked(bid_personnel)), PERSONNEL_HEADER_KEYS)

\* _fill_performance_section
fill_performance_section(body, bid_performances, content_start, content_end) ==
    IF Len(Linked(bid_performances)) = 0 THEN body
    ELSE FillTableAt(body, FirstTableInRange(body, content_start, content_end),
                     PerformanceRecords(Linked(bid_performances)), PERFORMANCE_HEADER_KEYS)

\* The lines _insert_text_at_position makes paragraphs of: stripped, the
\* empty ones left out
NonEmptyLines(lines) ==
    SelectSeq([i \in 1..Len(lines) |-> Strip(lines[i])], LAMBDA l : Len(l) > 0)
TextLines(text) == NonEmptyLines(SplitOn(Strip(text), NEWLINE))

\* _clone_paragraph_format and the substitution in its one run
NewParagraphs(lines, project_data) ==
    [i \in 1..Len(lines) |-> FPara(0, <<Substitute(lines[i], project_data)>>)]

\* The place in the body of the paragraph with index idx of doc.paragraphs
\* (idx from 0; a negative idx counts from the end of the list, as
\* paragraphs[idx] does)
BodyIndexOfPara(body, idx) ==
    CHOOSE k \in 1..Len(body) :
        /\ IsPara(body[k])
        /\ ParaCount(body, k) = (IF idx < 0 THEN idx + Len(Paragraphs(body)) ELSE idx)

InsertAfter(seq, k, new) == SubSeq(seq, 1, k) \o new \o SubSeq(seq, k + 1, Len(seq))

\* The new paragraphs are each put directly after the reference paragraph,
\* the last line first
insert_text_reversed(body, text, after_para_index, project_data) ==
    IF after_para_index >= Len(Paragraphs(body)) THEN [body |-> body]
    ELSE IF after_para_index < -Len(Paragraphs(body)) THEN Raised
    ELSE [body |-> InsertAfter(body, BodyIndexOfPara(body, after_para_index),
                               [i \in 1..Len(TextLines(text)) |->
                                  NewParagraphs(TextLines(text), project_data)[
                                      Len(TextLines(text)) + 1 - i]])]

\* _insert_text_at_position(doc, text, after_para_index, project_data): the
\* body it leaves, Raised for the IndexError of paragraphs[after_para_index]
\* when the index lies before the first paragraph counted from the end
insert_text_at_position(body, text, after_para_index, project_data) ==
    IF after_para_index >= Len(Paragraphs(body)) THEN [body |-> body]
    ELSE IF after_para_index < -Len(Paragraphs(body)) THEN Raised
    ELSE [body |-> InsertAfter(body, BodyIndexOfPara(body, after_para_index),
                               NewParagraphs(TextLines(text), project_data))]

\* _fill_text_section and _fill_custom_content
fill_text_section(body, sec_info, project_data) ==
    IF Len(sec_info.custom_content) = 0 THEN [body |-> body]
    ELSE insert_text_at_position(body, sec_info.custom_content, sec_info.content_start,
                                 project_data)

\* One round of the loop of fill_template over sorted_sections: the body it
\* leaves, Raised when the step raises
fill_section(body, sec_info, fbid, project_data) ==
    IF sec_info.section_type = TYPE_PERSONNEL
    THEN [body |-> fill_personnel_section(body, fbid.bid_personnel,
                                          sec_info.content_start, sec_info.content_end)]
    ELSE IF sec_info.section_type = TYPE_PERFORMANCE
    THEN [body |-> fill_performance_section(body, fbid.bid_performances,
                                            sec_info.content_start, sec_info.content_end)]
    ELSE IF sec_info.section_type \in FORM_TYPES
    THEN [body |-> fill_section_tables(body, project_data,
                                       sec_info.content_start, sec_info.content_end)]
    ELSE fill_text_section(body, sec_info, project_data)

\* sorted(..., key=para_index): equal keys keep their order
InsertAt(sorted, s, n) == SubSeq(sorted, 1, n) \o <<s>> \o SubSeq(sorted, n + 1, Len(sorted))
InsertByParaIndex(sorted, s) ==
    InsertAt(sorted, s,
             Cardinality({i \in 1..Len(sorted) : sorted[i].para_index <= s.para_index}))
RECURSIVE SortByParaIndex(_, _)
SortByParaIndex(infos, n) ==
    IF n = 0 THEN <<>> ELSE InsertByParaIndex(SortByParaIndex(infos, n - 1), infos[n])

\* sorted(..., key=content_start, reverse=True): equal keys keep their order
InsertByContentStart(sorted, s) ==
    InsertAt(sorted, s,
             Cardinality({i \in 1..Len(sorted) : sorted[i].content_start >= s.content_start}))
RECURSIVE SortByContentStart(_, _)
SortByContentStart(infos, n) ==
    IF n = 0 THEN <<>> ELSE InsertByContentStart(SortByContentStart(infos, n - 1), infos[n])

\* sec.format_para_index or 0
ParaIndexOf(sec) == IF sec.format_para_index = None THEN 0 ELSE sec.format_para_index.index

\* The info generate_filled_document builds for a stored section
SectionInfo(sec) ==
    [section_type |-> sec.section_type,
     section_name |-> sec.section_name,
     para_index |-> ParaIndexOf(sec),
     content_start |-> ParaIndexOf(sec) + 1,
     content_end |-> 0,
     custom_content |-> sec.custom_content]

\* content_end: the para_index of the next section, the number of paragraphs
\* for the last one
WithContentEnd(sorted, n_paragraphs) ==
    [i \in 1..Len(sorted) |->
        [sorted[i] EXCEPT !.content_end = IF i < Len(sorted) THEN sorted[i + 1].para_index
                                          ELSE n_paragraphs]]

\* sections_info as generate_filled_document hands it to fill_template
SectionsInfo(sections_db, n_paragraphs) ==
    WithContentEnd(
        SortByParaIndex([i \in 1..Len(sections_db) |-> SectionInfo(sections_db[i])],
                        Len(sections_db)),
        n_paragraphs)

\* sorted_sections of fill_template
SortedSections(sections_info) == SortByContentStart(sections_info, Len(sections_info))

\* The loop of fill_template over sorted_sections: the body it leaves, Raised
\* when a step raises
RECURSIVE FillSections(_, _, _, _)
FillSections(body, sorted_sections, fbid, project_data) ==
    IF Len(sorted_sections) = 0 THEN [body |-> body]
    ELSE IF fill_section(body, Head(sorted_sections), fbid, project_data) = Raised
    THEN Raised
    ELSE FillSections(fill_section(body, Head(sorted_sections), fbid, project_data).body,
                      Tail(sorted_sections), fbid, project_data)

\* fill_template(format_file_path, sections_info, bid, app_config): the body
\* of the document it returns, Raised when Document() does not open the
\* template or a step of pass 2 raises
fill_template(template, sections_info, fbid) ==
    IF "body" \notin DOMAIN template THEN Raised
    ELSE FillSections(replace_global_placeholders(template.body, get_project_data(fbid)),
                      SortedSections(sections_info), fbid, get_project_data(fbid))

\* generate_filled_document(format_file_path, bid, sections_db, app_config) in
\* second t: the body of the document and the path it is saved under, Raised
\* when fill_template raises
\* The document fill_template returned, saved under output_path
SavedAs(result, output_path) ==
    IF result = Raised THEN Raised ELSE [body |-> result.body, output_path |-> output_path]
generate_filled_document(template, format_file_path, fbid, sections_db, t) ==
    IF "body" \notin DOMAIN template THEN Raised
    ELSE SavedAs(fill_template(template,
                               SectionsInfo(sections_db, Len(Paragraphs(template.body))),
                               fbid),
                 OutputPath(format_file_path, fbid.id, t))

(***************************************************************************)
(* The fusion as a state machine                                           *)
(***************************************************************************)
MaxElems == 3       \* elements of a template body
MaxSections == 2    \* stored sections of a bid

UnreadableTemplate == [unreadable |-> TRUE]

HEADER_CELL == <<<<"u5e8f", "u53f7">>>>                 \* 序号, in one run
PLAIN_CELL == <<<<"x">>>>
\* The shapes of a template element: a paragraph; a table with a header row and
\* a data row (its first cell without a run, its second with a placeholder and
\* a second run); a table of one row; a table whose header is its last row
ElemShapes == {
    [kind |-> "p", runs |-> <<<<"a">>>>, rows |-> <<>>],
    [kind |-> "tbl", runs |-> <<>>,
     rows |-> << <<HEADER_CELL, PLAIN_CELL>>,
                 << <<>>, << <<"[", "u516c", "u53f8", "u540d", "u79f0", "]">>, <<"y">> >> >> >>],
    [kind |-> "tbl", runs |-> <<>>, rows |-> << <<HEADER_CELL>> >>],
    [kind |-> "tbl", runs |-> <<>>, rows |-> << <<PLAIN_CELL>>, <<HEADER_CELL>> >>] }

TemplateBody(shapes) ==
    [k \in 1..Len(shapes) |->
        [kind |-> shapes[k].kind, id |-> k, runs |-> shapes[k].runs, rows |-> shapes[k].rows]]
Templates ==
    {[body |-> TemplateBody(shapes)] : shapes \in SeqsUpTo(ElemShapes, MaxElems)}
    \cup {UnreadableTemplate}

\* custom_content of a free-text section: none, or two lines with a blank line
\* between them
CUSTOM_TEXT == <<" ", "b", "u000a", "u000a", "[", "u516c", "u53f8", "u540d", "u79f0", "]">>

\* format_para_index of a stored section: null for a section added by hand,
\* the index the format parser found, or whatever integer a client posted to
\* bid_confirm_sections, which stores int() of the field: an index that
\* counts from the end of a template, and one before the start of any
Anchors ==
    {None} \cup {[index |-> n] : n \in (1..(MaxElems - 1)) \cup {-2, -(MaxElems + 2)}}

\* The stored sections.  Only the free-text kinds are given a custom text:
\* fill_template does not read it for the others.
SectionRows ==
    {[section_type |-> t, format_para_index |-> a, custom_content |-> <<>>] :
        t \in {TYPE_PERSONNEL, TYPE_PERFORMANCE, <<"u6295", "u6807", "u51fd">>,
               TYPE_TECH, TYPE_OTHER},
        a \in Anchors}
    \cup {[section_type |-> t, format_para_index |-> a, custom_content |-> CUSTOM_TEXT] :
        t \in {TYPE_TECH, TYPE_OTHER}, a \in Anchors}

\* section_name: the place in the stored list stands for the name
NamedSections(rows) ==
    [i \in 1..Len(rows) |->
        [section_name |-> i, section_type |-> rows[i].section_type,
         format_para_index |-> rows[i].format_para_index,
         custom_content |-> rows[i].custom_content]]
\* A section whose heading is the first paragraph of the template, and a
\* section added by hand stored behind it
HEADING_FIRST ==
    <<[section_type |-> TYPE_PERSONNEL, format_para_index |-> [index |-> 0],
       custom_content |-> <<>>],
      [section_type |-> TYPE_OTHER, format_para_index |-> None, custom_content |-> <<>>]>>
SectionLists ==
    {NamedSections(rows) : rows \in SeqsUpTo(SectionRows, MaxSections) \cup {HEADING_FIRST}}

\* A bid with two persons and two performances linked, and a bid whose links
\* hold no record.  A null text column is read through `or ''`: it is the
\* empty text here.
FusionBids == {
    [id |-> 1, project_name |-> <<"P", "1">>, bidder_name |-> <<>>, agent_name |-> <<>>,
     max_price |-> 0, service_period |-> <<>>, notes |-> <<"A", "C", "M", "E">>,
     bid_personnel |-> <<
        [role |-> <<"u9879", "u76ee", "u8d1f", "u8d23", "u4eba">>,
         record |-> [name |-> <<"u5f20", "u4e09">>, social_security_unit |-> <<>>,
                     title |-> <<"u5de5", "u7a0b", "u5e08">>,
                     phone |-> <<"1", "3", "8">>]],
        [role |-> <<>>, record |-> None],
        [role |-> <<>>,
         record |-> [name |-> <<"u674e", "u56db">>, social_security_unit |-> <<>>,
                     title |-> <<>>, phone |-> <<>>]] >>,
     bid_performances |-> <<
        [record |-> [project_name |-> <<"P", "1">>,
                     client_name |-> <<"u67d0", "u6c34", "u52a1", "u5c40">>,
                     contract_amount |-> 50,
                     service_start |-> [year |-> 2024, month |-> 3],
                     service_end |-> [year |-> 2025, month |-> 11]]],
        [record |-> [project_name |-> <<"P", "2">>, client_name |-> <<>>,
                     contract_amount |-> 0,
                     service_start |-> [year |-> 2024, month |-> 3],
                     service_end |-> None]] >>],
    [id |-> 2, project_name |-> <<"P", "2">>, bidder_name |-> <<>>, agent_name |-> <<>>,
     max_price |-> 0, service_period |-> <<>>, notes |-> <<>>,
     bid_personnel |-> <<[role |-> <<>>, record |-> None]>>,
     bid_performances |-> <<[record |-> None]>>] }

\* The path of the format template of the bid: an upload of bid_add
TEMPLATE_PATH ==
    PathJoin(UPLOAD_FOLDER,
             <<"a", "t", "t", "a", "c", "h", "m", "e", "n", "t", "s", "/">> \o Timestamp(0)
             \o <<"_", "a", ".", "d", "o", "c", "x">>)

InitFusion ==
    /\ job \in {[template |-> t, format_file_path |-> TEMPLATE_PATH, sections_db |-> s,
                  bid |-> b] :
                    t \in Templates, s \in SectionLists, b \in FusionBids}
    /\ filled = None /\ todo = <<>> /\ handled = None
    /\ m_probe = None /\ m_out = None /\ calls = 0
    /\ fmt_sections = <<>> /\ section_requirements = None
    /\ t_probe = None /\ t_out = None
    /\ doc = None /\ probe = None /\ fmt_out = None /\ hd_out = None
    /\ cls_text = <<>> /\ cls_out = None /\ cls_prev = None
    /\ tfile = None /\ parse_out = None
    /\ disk = {} /\ clock = 0 /\ registry = None /\ bids = <<>>
    /\ session = None /\ request = None /\ response = None /\ budget = 0
    /\ para = None /\ fill_out = None /\ resolved = None

\* generate_filled_document up to the loop of fill_template: the infos, the
\* template opened, pass 1, the sections sorted.  Document() raises for a
\* template it does not open; the steps of the loop raise in FillSection.
GenerateFilledDocument ==
    /\ filled = None
    /\ IF job.template = UnreadableTemplate
       THEN /\ filled' = Raised
            /\ todo' = <<>>
       ELSE /\ filled' = [body |-> replace_global_placeholders(job.template.body,
                                                                get_project_data(job.bid)),
                          saved |-> FALSE, output_path |-> <<>>]
            /\ todo' = SortedSections(
                           SectionsInfo(job.sections_db,
                                        Len(Paragraphs(job.template.body))))
    /\ UNCHANGED <<job, handled>>

\* One round of the loop of fill_template: the exception of a step ends
\* the loop and is the exception of generate_filled_document
FillSection ==
    /\ filled # None /\ filled # Raised
    /\ ~filled.saved
    /\ todo # <<>>
    /\ IF fill_section(filled.body, Head(todo), job.bid, get_project_data(job.bid)) = Raised
       THEN /\ filled' = Raised
            /\ todo' = <<>>
       ELSE /\ filled' = [filled EXCEPT !.body = fill_section(@, Head(todo), job.bid,
                                                              get_project_data(job.bid)).body]
            /\ todo' = Tail(todo)
    /\ handled' = [sec_info |-> Head(todo), before |-> filled.body]
    /\ UNCHANGED job

\* fill_template returns: the document is saved in the folder output beside
\* the folder of the template, which os.makedirs makes, under the id of the
\* bid and the second of the clock, over a file of that name
SaveFilled ==
    /\ filled # None /\ filled # Raised
    /\ ~filled.saved
    /\ todo = <<>>
    /\ \E t \in clock..MaxClock :
        /\ clock' = t
        /\ filled' = [filled EXCEPT
                          !.saved = TRUE,
                          !.output_path = OutputPath(job.format_file_path, job.bid.id, t)]
        /\ disk' = Written(disk, OutputPath(job.format_file_path, job.bid.id, t),
                           Content("docx", filled.body))
    /\ UNCHANGED <<job, todo, handled>>

NextFusion ==
    \/ GenerateFilledDocument /\ UNCHANGED <<fmtVars, clsVars, tndVars, appVars, fillVars, matVars, reqVars, stpVars>>
    \/ FillSection /\ UNCHANGED <<fmtVars, clsVars, tndVars, appVars, fillVars, matVars, reqVars, stpVars>>
    \/ SaveFilled /\ UNCHANGED <<registry, bids, session, request, response, budget>>
          /\ UNCHANGED <<fmtVars, clsVars, tndVars, fillVars, matVars, reqVars, stpVars>>

SpecFusion == InitFusion /\ [][NextFusion]_vars

(***************************************************************************)
(* The fill steps of pass 2 as a state machine                             *)
(***************************************************************************)
MaxRows == 4        \* rows of a table handed to a fill step
MaxRecords == 3     \* records handed to a fill step
MaxBodyElems == 3   \* elements of a body handed to _insert_text_at_position

NAME_CELL == <<<<" ", "u59d3", "u540d", " ">>>>          \* 姓名, with white space around
\* The rows of a table: a header of two cells, a data row of two cells (the
\* first without a run, the second with two runs), a row of six cells, a
\* header of six cells with the word of the personnel table only
RowShapes == {
    <<HEADER_CELL, PLAIN_CELL>>,
    << <<>>, << <<"[", "u516c", "u53f8", "u540d", "u79f0", "]">>, <<"y">> >> >>,
    <<PLAIN_CELL, PLAIN_CELL, PLAIN_CELL, PLAIN_CELL, PLAIN_CELL, PLAIN_CELL>>,
    <<PLAIN_CELL, NAME_CELL, PLAIN_CELL, PLAIN_CELL, PLAIN_CELL, PLAIN_CELL>> }
ProbeTables == SeqsUpTo(RowShapes, MaxRows)

\* The persons and the performances linked, in the order of the links
THREE_PERSONS == <<
    [role |-> <<"u9879", "u76ee", "u8d1f", "u8d23", "u4eba">>,
     record |-> [name |-> <<"u5f20", "u4e09">>, social_security_unit |-> <<>>,
                 title |-> <<"u5de5", "u7a0b", "u5e08">>, phone |-> <<"1", "3", "8">>]],
    [role |-> <<>>,
     record |-> [name |-> <<"u674e", "u56db">>, social_security_unit |-> <<>>,
                 title |-> <<>>, phone |-> <<>>]],
    [role |-> <<"u6280", "u672f", "u8d1f", "u8d23", "u4eba">>,
     record |-> [name |-> <<"u738b", "u4e94">>, social_security_unit |-> <<>>,
                 title |-> <<"u9ad8", "u7ea7">>, phone |-> <<>>]] >>
THREE_PERFORMANCES == <<
    [record |-> [project_name |-> <<"P", "1">>,
                 client_name |-> <<"u67d0", "u6c34", "u52a1", "u5c40">>,
                 contract_amount |-> 50,
                 service_start |-> [year |-> 2024, month |-> 3],
                 service_end |-> [year |-> 2025, month |-> 11]]],
    [record |-> [project_name |-> <<"P", "2">>, client_name |-> <<>>,
                 contract_amount |-> 0,
                 service_start |-> [year |-> 2024, month |-> 3],
                 service_end |-> None]],
    [record |-> [project_name |-> <<"P", "3">>, client_name |-> <<"c">>,
                 contract_amount |-> 7, service_start |-> None, service_end |-> None]] >>

\* The bodies and the texts handed to _insert_text_at_position
ProbeShapes == {
    [kind |-> "p", runs |-> <<<<"a">>>>, rows |-> <<>>],
    [kind |-> "p", runs |-> <<>>, rows |-> <<>>],
    [kind |-> "tbl", runs |-> <<>>, rows |-> << <<HEADER_CELL>> >>] }
ProbeBodies == {TemplateBody(shapes) : shapes \in SeqsUpTo(ProbeShapes, MaxBodyElems)}
ProbeTexts == {
    <<>>,
    <<"u000a", " ">>,
    <<"x">>,
    CUSTOM_TEXT,
    <<"x", "u000a", " ", "u000a", "[", "u9644", "u4ef6", "]",
      "[", "u516c", "u53f8", "u540d", "u79f0", "]", " ", "u000a", "x">>,
    <<"[", " ", "]", "u000a", "u3010", "u9879", "u76ee", "u540d", "u79f0", "u3011", "z",
      "u000a">> }

InitSteps ==
    /\ \/ t_probe \in {[op |-> "fill_personnel_table", rows |-> rows,
                          list |-> [k \in 1..n |-> THREE_PERSONS[((k - 1) % 3) + 1]]] :
                            rows \in ProbeTables, n \in 0..MaxRecords}
       \/ t_probe \in {[op |-> "fill_performance_table", rows |-> rows,
                          list |-> [k \in 1..n |-> THREE_PERFORMANCES[((k - 1) % 3) + 1]]] :
                            rows \in ProbeTables, n \in 0..MaxRecords}
       \/ t_probe \in {[op |-> "insert_text_at_position", body |-> b, text |-> t,
                          after_para_index |-> i, project_data |-> d] :
                            b \in ProbeBodies, t \in ProbeTexts,
                            i \in (-(MaxBodyElems + 1))..MaxBodyElems,
                            d \in ProjectDatas}
    /\ t_out = None
    /\ fmt_sections = <<>> /\ section_requirements = None
    /\ doc = None /\ probe = None /\ fmt_out = None /\ hd_out = None
    /\ cls_text = <<>> /\ cls_out = None /\ cls_prev = None
    /\ tfile = None /\ parse_out = None
    /\ disk = {} /\ clock = 0 /\ registry = None /\ bids = <<>>
    /\ session = None /\ request = None /\ response = None /\ budget = 0
    /\ para = None /\ fill_out = None /\ resolved = None
    /\ job = None /\ filled = None /\ todo = <<>> /\ handled = None
    /\ m_probe = None /\ m_out = None /\ calls = 0

\* _fill_personnel_table(table, personnel_list, project_data)
FillPersonnelTable ==
    /\ t_probe.op = "fill_personnel_table"
    /\ t_out = None
    /\ t_out' = [rows |-> fill_table(t_probe.rows, PersonRecords(t_probe.list),
                                     PERSONNEL_HEADER_KEYS)]
    /\ UNCHANGED t_probe

\* _fill_performance_table(table, perf_list, project_data)
FillPerformanceTable ==
    /\ t_probe.op = "fill_performance_table"
    /\ t_out = None
    /\ t_out' = [rows |-> fill_table(t_probe.rows, PerformanceRecords(t_probe.list),
                                     PERFORMANCE_HEADER_KEYS)]
    /\ UNCHANGED t_probe

\* _insert_text_at_position(doc, text, after_para_index, project_data)
InsertTextAtPosition ==
    /\ t_probe.op = "insert_text_at_position"
    /\ t_out = None
    /\ t_out' = insert_text_at_position(t_probe.body, t_probe.text,
                                        t_probe.after_para_index, t_probe.project_data)
    /\ UNCHANGED t_probe

NextSteps ==
    \/ FillPersonnelTable
          /\ UNCHANGED <<fmtVars, clsVars, tndVars, appVars, fillVars, fusVars, matVars, reqVars>>
    \/ FillPerformanceTable
          /\ UNCHANGED <<fmtVars, clsVars, tndVars, appVars, fillVars, fusVars, matVars, reqVars>>
    \/ InsertTextAtPosition
          /\ UNCHANGED <<fmtVars, clsVars, tndVars, appVars, fillVars, fusVars, matVars, reqVars>>

SpecSteps == InitSteps /\ [][NextSteps]_vars

(***************************************************************************)
(* section_matcher.py: the rankings and the automatic binding              *)
(***************************************************************************)
\* Dates are day numbers; date.today() is day TODAY.  A date column that may
\* be null holds None or [day |-> n].  A text column that is null holds the
\* empty text, where the code reads it through `or ''` or tests its truth.
TODAY == 0
YEAR_DAYS == 365
DEFAULT_YEARS == 3

\* sorted(..., key=score, reverse=True) and list.sort: equal scores keep
\* their order
InsertByScore(sorted, s) ==
    InsertAt(sorted, s, Cardinality({i \in 1..Len(sorted) : sorted[i].score >= s.score}))
RECURSIVE SortByScore(_, _)
SortByScore(items, n) ==
    IF n = 0 THEN <<>> ELSE InsertByScore(SortByScore(items, n - 1), items[n])

\* {t.strip().lower() for t in s.split(',') if t.strip()}
TagSet(s) ==
    {Lower(Strip(SplitOn(s, ",")[k])) : k \in 1..Len(SplitOn(s, ","))} \ {<<>>}

\* _tag_overlap(tags_str_a, tags_str_b)
tag_overlap(tags_str_a, tags_str_b) ==
    IF Len(tags_str_a) = 0 \/ Len(tags_str_b) = 0 THEN 0
    ELSE Cardinality(TagSet(tags_str_a) \cap TagSet(tags_str_b))

\* _keyword_in_text(keywords, text)
keyword_in_text(keywords, text) ==
    IF Len(text) = 0 THEN 0
    ELSE Cardinality({k \in 1..Len(keywords) : Contains(Lower(text), Lower(keywords[k]))})

\* att.expiry_date and att.expiry_date < date.today()
Expired(att) == att.expiry_date # None /\ att.expiry_date.day < TODAY
\* att.expiry_date and att.expiry_date >= date.today()
Unexpired(att) == att.expiry_date # None /\ att.expiry_date.day >= TODAY

\* min(100, max(0, score))
Clip(score) == Min2(100, Max2(0, score))

\* Pass 1 of match_attachment: the score of a record of the category
ExactScore(att) ==
    80 + (IF Unexpired(att) THEN 10 ELSE IF Expired(att) THEN -30 ELSE 0)
       + (IF Len(att.file_path) > 0 THEN 10 ELSE 0)

\* Pass 2 with fifty points for the name
FuzzyPoints_name_fifty(att, section_type) ==
    (IF Len(section_type) > 0 /\ Contains(att.name, section_type) THEN 50 ELSE 0)
    + (IF Len(section_type) > 0 /\ Len(att.tags) > 0 /\ Contains(att.tags, section_type)
       THEN 30 ELSE 0)

\* Pass 2: the points of the name and of the tags
FuzzyPoints(att, section_type) ==
    (IF Len(section_type) > 0 /\ Contains(att.name, section_type) THEN 40 ELSE 0)
    + (IF Len(section_type) > 0 /\ Len(att.tags) > 0 /\ Contains(att.tags, section_type)
       THEN 30 ELSE 0)

\* Pass 2: the score of a record that has points
FuzzyScore(att, section_type) ==
    FuzzyPoints(att, section_type)
    + (IF Len(att.file_path) > 0 THEN 10 ELSE 0)
    + (IF Expired(att) THEN -30 ELSE 0)

UNCLASSIFIED == <<"u672a", "u5206", "u7c7b">>          \* 未分类

\* The entry of a record in the results of pass 1
ExactResult(att) ==
    [id |-> att.id, name |-> att.name, category |-> att.category,
     score |-> Clip(ExactScore(att)), expired |-> Expired(att)]

\* The entry of a record in the results of pass 2
FuzzyResult(att, section_type) ==
    [id |-> att.id, name |-> att.name,
     category |-> IF Len(att.category) = 0 THEN UNCLASSIFIED ELSE att.category,
     score |-> Clip(FuzzyScore(att, section_type)), expired |-> Expired(att)]

\* The results of pass 1, in the order of the table.  No record has a null
\* category.
ExactOf(found) == [k \in 1..Len(found) |-> ExactResult(found[k])]
ExactResults(atts, category) == ExactOf(SelectSeq(atts, LAMBDA a : a.category = category))

\* The results of pass 2, in the order of the table
FuzzyOf(found, section_type) ==
    [k \in 1..Len(found) |-> FuzzyResult(found[k], section_type)]
FuzzyResults(atts, section_type, category) ==
    FuzzyOf(SelectSeq(atts, LAMBDA a : a.category # category
                                       /\ FuzzyPoints(a, section_type) > 0),
            section_type)

\* results after the two passes
BothPasses(exact, atts, section_type, category) ==
    IF Len(exact) < 3 THEN exact \o FuzzyResults(atts, section_type, category) ELSE exact

\* The five best of a list of results
TopFive(results) == Take(SortByScore(results, Len(results)), 5)

\* match_attachment(section_type, category)
match_attachment(atts, section_type, category) ==
    TopFive(BothPasses(ExactResults(atts, category), atts, section_type, category))

\* The recency points with the second threshold at twice the years
RecencyPoints_twice(perf, years) ==
    IF perf.service_start # None /\ perf.service_start.day >= TODAY - years * YEAR_DAYS
    THEN 30
    ELSE IF perf.service_start # None
            /\ perf.service_start.day >= TODAY - 2 * years * YEAR_DAYS
    THEN 15
    ELSE 0

\* The recency points of match_performance
RecencyPoints(perf, years) ==
    IF perf.service_start # None /\ perf.service_start.day >= TODAY - years * YEAR_DAYS
    THEN 30
    ELSE IF perf.service_start # None
            /\ perf.service_start.day >= TODAY - years * YEAR_DAYS - YEAR_DAYS
    THEN 15
    ELSE 0

AmountPoints(contract_amount) ==
    IF contract_amount <= 0 THEN 0
    ELSE IF contract_amount >= 100 THEN 15
    ELSE IF contract_amount >= 50 THEN 10
    ELSE 5

\* The score of a performance before it is clipped
PerformanceScore(perf, project_tags, years) ==
    RecencyPoints(perf, years)
    + (IF TagSet(project_tags) # {} THEN 20 * tag_overlap(project_tags, perf.service_types)
       ELSE 0)
    + (IF TagSet(project_tags) # {} THEN 10 * tag_overlap(project_tags, perf.testing_params)
       ELSE 0)
    + AmountPoints(perf.contract_amount)
    + Min2(Len(perf.files) * 5, 15)

\* match_performance(project_tags, years)
match_performance(perfs, project_tags, years) ==
    Take(SortByScore([k \in 1..Len(perfs) |->
                        [id |-> perfs[k].id,
                         score |-> Clip(PerformanceScore(perfs[k], project_tags, years))]],
                     Len(perfs)),
         10)

ROLE_PROJECT_LEADER == <<"u9879", "u76ee", "u8d1f", "u8d23", "u4eba">>     \* 项目负责人
ROLE_TECH_LEADER == <<"u6280", "u672f", "u8d1f", "u8d23", "u4eba">>        \* 技术负责人

ContainsAny(s, words) == \E w \in words : Contains(s, w)

\* role_hint of a person, the empty text when the position names no lead
RoleHint(p) ==
    IF ContainsAny(Lower(p.position), {<<"u9879", "u76ee", "u8d1f", "u8d23">>,
                                       <<"u9879", "u76ee", "u7ecf", "u7406">>})
    THEN ROLE_PROJECT_LEADER
    ELSE IF ContainsAny(Lower(p.position), {<<"u6280", "u672f", "u8d1f", "u8d23">>,
                                            <<"u6280", "u672f", "u603b", "u76d1">>})
    THEN ROLE_TECH_LEADER
    ELSE <<>>

TitlePoints(title) ==
    IF ContainsAny(title, {<<"u9ad8", "u7ea7">>, <<"u6559", "u6388">>, <<"u6b63", "u9ad8">>})
    THEN 20
    ELSE IF ContainsAny(title, {<<"u4e2d", "u7ea7">>, <<"u5de5", "u7a0b", "u5e08">>})
    THEN 10
    ELSE 0

\* The score of a person before the cap
PersonScore(p, project_tags) ==
    (IF Len(RoleHint(p)) > 0 THEN 30 ELSE 0)
    + TitlePoints(Lower(p.title))
    + (IF TagSet(project_tags) # {} /\ Len(p.skills) > 0
       THEN 15 * Cardinality(TagSet(project_tags) \cap TagSet(p.skills)) ELSE 0)
    + (IF Len(p.certificates) > 0 THEN Min2(Len(p.certificates) * 5, 20) ELSE 0)

\* scored, sorted
ScoredPersonnel(persons, project_tags) ==
    SortByScore([k \in 1..Len(persons) |->
                    [id |-> persons[k].id, role_hint |-> RoleHint(persons[k]),
                     score |-> Min2(100, PersonScore(persons[k], project_tags))]],
                Len(persons))

\* The buckets without their caps
Bucket_uncapped(scored, role_hint, n) ==
    SelectSeq(scored, LAMBDA item : item.role_hint = role_hint)

Bucket(scored, role_hint, n) ==
    Take(SelectSeq(scored, LAMBDA item : item.role_hint = role_hint), n)

\* match_personnel(project_tags)
match_personnel(persons, project_tags) ==
    [project_leader |-> Bucket(ScoredPersonnel(persons, project_tags), ROLE_PROJECT_LEADER, 3),
     tech_leader |-> Bucket(ScoredPersonnel(persons, project_tags), ROLE_TECH_LEADER, 3),
     members |-> Bucket(ScoredPersonnel(persons, project_tags), <<>>, 10)]

\* text[i:].startswith(lit), i from 1
LitAt(s, i, lit) == i + Len(lit) - 1 <= Len(s) /\ SubSeq(s, i, i + Len(lit) - 1) = lit

\* re.findall of an alternation of literals: the matches from index i on
RECURSIVE FindLits(_, _, _)
FoundLit(s, i, lits, k) ==
    IF k = 0 THEN FindLits(s, i + 1, lits)
    ELSE <<lits[k]>> \o FindLits(s, i + Len(lits[k]), lits)
FindLits(s, i, lits) ==
    IF i > Len(s) THEN <<>>
    ELSE FoundLit(s, i, lits, FirstWhere(Len(lits), LAMBDA k : LitAt(s, i, lits[k])))

\* re.findall(r'(CMA|CNAS|ISO\d*)', text)
RECURSIVE FindCerts(_, _)
FindCerts(s, i) ==
    IF i > Len(s) THEN <<>>
    ELSE IF LitAt(s, i, <<"C", "M", "A">>)
    THEN <<<<"C", "M", "A">>>> \o FindCerts(s, i + 3)
    ELSE IF LitAt(s, i, <<"C", "N", "A", "S">>)
    THEN <<<<"C", "N", "A", "S">>>> \o FindCerts(s, i + 4)
    ELSE IF LitAt(s, i, <<"I", "S", "O">>)
    THEN <<SubSeq(s, i, SkipClass(s, i + 3, DIGITS) - 1)>>
         \o FindCerts(s, SkipClass(s, i + 3, DIGITS))
    ELSE FindCerts(s, i + 1)

GRADES == << <<"u9ad8", "u7ea7">>, <<"u4e2d", "u7ea7">>, <<"u521d", "u7ea7">> >>
GRADE_NOUNS == << <<"u804c", "u79f0">>, <<"u5de5", "u7a0b", "u5e08">> >>

\* re.findall(r'(高级|中级|初级)(职称|工程师)', text), each pair joined
RECURSIVE FindGrades(_, _)
FoundGrade(s, i, g, n) ==
    IF g = 0 \/ n = 0 THEN FindGrades(s, i + 1)
    ELSE <<GRADES[g] \o GRADE_NOUNS[n]>> \o FindGrades(s, i + 2 + Len(GRADE_NOUNS[n]))
FindGrades(s, i) ==
    IF i > Len(s) THEN <<>>
    ELSE FoundGrade(s, i, FirstWhere(Len(GRADES), LAMBDA k : LitAt(s, i, GRADES[k])),
                    FirstWhere(Len(GRADE_NOUNS), LAMBDA k : LitAt(s, i + 2, GRADE_NOUNS[k])))

NEED == "u9700"
NEED_VERBS == {"u63d0", "u4f9b", "u5177", "u5907", "u6709"}    \* 提供具备有

\* re.findall of NEED, one of NEED_VERBS and a run of CJK characters, which
\* is what it returns
RECURSIVE FindPhrases(_, _)
FindPhrases(s, i) ==
    IF i + 2 > Len(s) THEN <<>>
    ELSE IF s[i] = NEED /\ s[i + 1] \in NEED_VERBS /\ IsCJK(s[i + 2])
    THEN <<SubSeq(s, i + 2, CjkEnd(s, i + 2) - 1)>> \o FindPhrases(s, CjkEnd(s, i + 2))
    ELSE FindPhrases(s, i + 1)

\* _parse_requirement_keywords(requirement_text)
parse_requirement_keywords(text) ==
    FindCerts(text, 1)
    \o FindLits(text, 1, << <<"u8d44", "u8d28", "u8ba4", "u5b9a">>,
                           <<"u8ba1", "u91cf", "u8ba4", "u8bc1">>,
                           <<"u68c0", "u9a8c", "u68c0", "u6d4b">> >>)
    \o FindGrades(text, 1)
    \o FindLits(text, 1, << <<"u8425", "u4e1a", "u6267", "u7167">>,
                           <<"u793e", "u4fdd">>, <<"u7eb3", "u7a0e">> >>)
    \o FindLits(text, 1, << <<"u5408", "u540c">>,
                           <<"u4e2d", "u6807", "u901a", "u77e5">>,
                           <<"u9a8c", "u6536", "u62a5", "u544a">> >>)
    \o FindPhrases(text, 1)

\* The category of a section type: that of its taxonomy entry, the type
\* itself when it has none
CategoryOf(sec_type) ==
    IF FirstWhere(Len(SECTION_KEYWORD_MAP),
                  LAMBDA k : SECTION_KEYWORD_MAP[k].type = sec_type) = 0
       \/ Len(sec_type) = 0
    THEN sec_type
    ELSE SECTION_KEYWORD_MAP[FirstWhere(Len(SECTION_KEYWORD_MAP),
                                        LAMBDA k : SECTION_KEYWORD_MAP[k].type = sec_type)
                            ].category

\* The candidates with the bonus, left in the order match_attachment gave
Rescored_unsorted(att_matches, req_keywords) ==
    IF Len(att_matches) = 0 \/ Len(req_keywords) = 0 THEN att_matches
    ELSE [k \in 1..Len(att_matches) |->
             [att_matches[k] EXCEPT
                 !.score = Min2(100, @ + 5 * keyword_in_text(req_keywords,
                                                             att_matches[k].name))]]

\* The candidates with the bonus of the requirement keywords, sorted again
Rescored(att_matches, req_keywords) ==
    IF Len(att_matches) = 0 \/ Len(req_keywords) = 0 THEN att_matches
    ELSE SortByScore(
             [k \in 1..Len(att_matches) |->
                 [att_matches[k] EXCEPT
                     !.score = Min2(100, @ + 5 * keyword_in_text(req_keywords,
                                                                 att_matches[k].name))]],
             Len(att_matches))

BestOf(att_matches) == IF Len(att_matches) = 0 THEN None ELSE att_matches[1]

\* auto_match_section(section, project_tags).  The list of performances is
\* the field items of a record, None being no list.
auto_match_section(reg, section, project_tags) ==
    [attachment |->
        BestOf(Rescored(match_attachment(reg.attachments, section.section_type,
                                         CategoryOf(section.section_type)),
                        parse_requirement_keywords(section.requirement_text))),
     personnel |-> IF section.section_type = TYPE_PERSONNEL
                   THEN match_personnel(reg.personnel, project_tags) ELSE None,
     performances |-> IF section.section_type = TYPE_PERFORMANCE
                      THEN [items |-> match_performance(reg.performances, project_tags,
                                                        DEFAULT_YEARS)]
                      ELSE None]

\* The links one section adds for the persons match_personnel puts first.  ids
\* are those of bid_project.bid_personnel, the collection as it was loaded:
\* a link handed to db.session.add is not in it before the commit.
LeadLinks(bucket, role_name, ids) ==
    IF Len(bucket) > 0 /\ bucket[1].id \notin ids
    THEN <<[personnel_id |-> bucket[1].id, role |-> role_name]>>
    ELSE <<>>
PersonnelLinks(personnel, ids) ==
    IF personnel = None THEN <<>>
    ELSE LeadLinks(personnel.project_leader, ROLE_PROJECT_LEADER, ids)
         \o LeadLinks(personnel.tech_leader, ROLE_TECH_LEADER, ids)

\* The links one section adds for the first three performances
NewPerformances(best, ids) ==
    [k \in 1..Len(SelectSeq(best, LAMBDA perf : perf.id \notin ids)) |->
        [performance_id |-> SelectSeq(best, LAMBDA perf : perf.id \notin ids)[k].id]]
PerformanceLinks(performances, ids) ==
    IF performances = None THEN <<>> ELSE NewPerformances(Take(performances.items, 3), ids)

\* The test without its second half: a candidate is all it takes
Binds_any(section, match) == match.attachment # None

\* match['attachment'] and not section.attachment_id
Binds(section, match) == match.attachment # None /\ section.attachment_id = 0

\* The section after its round of the loop
BoundSection(section, match) ==
    IF Binds(section, match)
    THEN [section EXCEPT !.attachment_id = match.attachment.id,
                         !.match_score = match.attachment.score]
    ELSE section

PersonnelIds(p) == {p.bid_personnel[k].personnel_id : k \in 1..Len(p.bid_personnel)}
PerformanceIds(p) == {p.bid_performances[k].performance_id : k \in 1..Len(p.bid_performances)}

\* auto_match_section for every section of the project
Matches(reg, p) ==
    [k \in 1..Len(p.sections) |-> auto_match_section(reg, p.sections[k], p.industry_tags)]

\* The project after auto_match_all_sections, the commit included
AutoMatched(p, matches) ==
    [p EXCEPT
        !.sections = [k \in 1..Len(p.sections) |-> BoundSection(p.sections[k], matches[k])],
        !.bid_personnel =
            @ \o Concat([k \in 1..Len(p.sections) |->
                            PersonnelLinks(matches[k].personnel, PersonnelIds(p))]),
        !.bid_performances =
            @ \o Concat([k \in 1..Len(p.sections) |->
                            PerformanceLinks(matches[k].performances, PerformanceIds(p))])]

\* What auto_match_all_sections returns
MatchStats(p, matches) ==
    [matched_sections |->
        Cardinality({k \in 1..Len(p.sections) : Binds(p.sections[k], matches[k])}),
     total_sections |-> Len(p.sections)]

(***************************************************************************)
(* tender_parser.py: match_requirements_to_sections                        *)
(***************************************************************************)
\* kw in block['title'] + ' ' + block['content']: a keyword holds no white
\* space
InBlock(block, kw) ==
    Contains(block.title, kw) \/ \E i \in 1..Len(block.content) : Contains(block.content[i], kw)

RECURSIVE SumLen(_)
SumLen(keywords) == IF Len(keywords) = 0 THEN 0 ELSE Len(Head(keywords)) + SumLen(Tail(keywords))

\* _score_block_match(block, section_name, section_type)
score_block_match(block, section_name, section_type) ==
    SumLen(SelectSeq(SectionKeywords(section_name, section_type),
                     LAMBDA kw : InBlock(block, kw)))

\* The loop over the blocks from block i on: best_block_score and the block it
\* belongs to, 0 when there is none
RECURSIVE BestBlock(_, _, _, _, _)
BetterBlock(blocks, i, best, section_name, section_type, score) ==
    BestBlock(blocks, i + 1,
              IF score > best.score THEN [score |-> score, index |-> i] ELSE best,
              section_name, section_type)
BestBlock(blocks, i, best, section_name, section_type) ==
    IF i > Len(blocks) THEN best
    ELSE BetterBlock(blocks, i, best, section_name, section_type,
                     score_block_match(blocks[i], section_name, section_type))

\* (block['title'] + '\n' + block['content']).split('\n')
BlockLines(block) ==
    SplitOn(block.title, NEWLINE)
    \o (IF Len(block.content) = 0 THEN << <<>> >> ELSE SplitLines(block.content))

\* The lines of the block that are appended to combined_lines, from line i on
RECURSIVE MergeLines(_, _, _)
MergeLines(combined_lines, block_lines, i) ==
    IF i > Len(block_lines) THEN combined_lines
    ELSE IF Len(Strip(block_lines[i])) > 0
            /\ \A k \in 1..Len(combined_lines) :
                  Strip(combined_lines[k]) # Strip(block_lines[i])
    THEN MergeLines(Append(combined_lines, block_lines[i]), block_lines, i + 1)
    ELSE MergeLines(combined_lines, block_lines, i + 1)

\* The merge with every line kept
Merged_uncapped(req_text, blocks, best) ==
    IF best.index # 0 /\ best.score > 2
    THEN IF Len(req_text) > 0
         THEN MergeLines(req_text, BlockLines(blocks[best.index]), 1)
         ELSE BlockLines(blocks[best.index])
    ELSE req_text

\* req_text of a section after the merge of the two methods
Merged(req_text, blocks, best) ==
    IF best.index # 0 /\ best.score > 2
    THEN IF Len(req_text) > 0
         THEN Take(MergeLines(req_text, BlockLines(blocks[best.index]), 1), 20)
         ELSE BlockLines(blocks[best.index])
    ELSE req_text

\* The text matched for one section
SectionText(requirements_result, sec) ==
    Merged(match_requirements_to_section(requirements_result.full_text, sec.section_name,
                                         sec.section_type),
           requirements_result.requirement_blocks,
           BestBlock(requirements_result.requirement_blocks, 1, [score |-> 0, index |-> 0],
                     sec.section_name, sec.section_type))

\* The keys a section writes: its name, and its type when it has one
KeysOfSection(sec) ==
    {sec.section_name} \cup (IF Len(sec.section_type) > 0 THEN {sec.section_type} ELSE {})

\* The last section of the list that writes the key
LastWriter(sections, key) ==
    CHOOSE k \in 1..Len(sections) :
        /\ key \in KeysOfSection(sections[k])
        /\ \A j \in (k + 1)..Len(sections) : key \notin KeysOfSection(sections[j])

\* Every section writes the key of its name only
Matched_by_name(requirements_result, sections) ==
    IF ~requirements_result.success THEN <<>>
    ELSE [key \in {sections[k].section_name : k \in 1..Len(sections)} |->
             SectionText(requirements_result,
                         sections[CHOOSE k \in 1..Len(sections) :
                                     /\ sections[k].section_name = key
                                     /\ \A j \in (k + 1)..Len(sections) :
                                           sections[j].section_name # key])]

\* match_requirements_to_sections(requirements_result, sections): the dict,
\* a function of its keys
match_requirements_to_sections(requirements_result, sections) ==
    IF ~requirements_result.success THEN <<>>
    ELSE [key \in UNION {KeysOfSection(sections[k]) : k \in 1..Len(sections)} |->
             SectionText(requirements_result, sections[LastWriter(sections, key)])]

\* dict.get(key, '')
DictGet(dict, key) == IF key \in DOMAIN dict THEN dict[key] ELSE <<>>

\* app.py: section_requirements.get(sec['section_name'], '') or
\* section_requirements.get(sec['section_type'], '')
RequirementOf(dict, sec) ==
    IF Len(DictGet(dict, sec.section_name)) > 0
    THEN DictGet(dict, sec.section_name)
    ELSE DictGet(dict, sec.section_type)

(***************************************************************************)
(* The matching of the requirements as a state machine                     *)
(***************************************************************************)
MaxReqLines == 3        \* paragraphs of a requirements file drawn freely
MaxReqSections == 2     \* sections of the format template

QUOTE_TABLE == <<"u62a5", "u4ef7", "u8868">>                              \* 报价表
ITEM_QUOTE_TABLE == <<"u5206", "u9879", "u62a5", "u4ef7", "u8868">>       \* 分项报价表
BID_LETTER == <<"u6295", "u6807", "u51fd">>                               \* 投标函
BILL == <<"u5de5", "u7a0b", "u91cf", "u6e05", "u5355">>                   \* 工程量清单
QUOTE == <<"u62a5", "u4ef7">>                                             \* 报价

\* The lines of the requirements files: titles and content lines with and
\* without the words of the sections
ReqLineSet ==
    {<<"1", ".">> \o QUOTE_TABLE \o <<" ">> \o BILL,        \* 1.报价表 工程量清单
     <<"u4e00", "u3001">> \o BID_LETTER,                    \* 一、投标函
     QUOTE \o <<" ", "a">>,                                 \* 报价 a
     <<"b", NEWLINE, " ", "c">>}

\* A file of one block: a title, then content lines with the word of the
\* quotation and as many without it
NumberedLine(word, k) == word \o Digits(k)
LongBlock(n) ==
    << <<"u4e00", "u3001", "u6295", "u6807">> \o QUOTE >>      \* 一、投标报价
    \o [k \in 1..n |-> NumberedLine(QUOTE, k)]
    \o [k \in 1..n |-> NumberedLine(<<"x">>, k)]

\* Two blocks that the two sections of the quotation score differently
TWO_BLOCKS ==
    << <<"1", ".">> \o QUOTE_TABLE \o <<" ">> \o BILL, <<"a">>,
       <<"2", ".">> \o ITEM_QUOTE_TABLE, <<"b">> >>

\* Paragraphs with white space around them and paragraphs of white space
\* only, before and after the first title
PADDED_BLOCKS ==
    << <<" ">>, <<" ">> \o QUOTE \o <<" ", "a", " ">>, <<>>,
       <<" ", "u4e00", "u3001">> \o BID_LETTER, <<" ", " ">>,
       <<"C", "M", "A", " ">>, <<"(", "u4e00", ")", "b">> >>

\* Paragraphs that hold a line break (w:br): before and after the mark of a
\* title, in a title, and before a line that reads as a title
BROKEN_BLOCKS ==
    << <<"a", NEWLINE, "1", ".">> \o QUOTE_TABLE,              \* a\n1.报价表
       <<"u4e00", NEWLINE, "u3001", NEWLINE>> \o BID_LETTER,   \* 一\n、\n投标函
       <<NEWLINE>> \o QUOTE \o <<NEWLINE>>,                    \* \n报价\n
       <<"2", ".">> \o QUOTE \o <<NEWLINE>> \o BILL >>         \* 2.报价\n工程量清单

ReqBodies ==
    SeqsUpTo(ReqLineSet, MaxReqLines)
        \cup {LongBlock(12), LongBlock(4), TWO_BLOCKS, PADDED_BLOCKS, BROKEN_BLOCKS}

RequirementFiles ==
    {File("docx", TRUE, [i \in 1..Len(ls) |-> Para(ls[i], STYLE_NORMAL)]) : ls \in ReqBodies}
    \cup {File("doc", TRUE, <<Para(QUOTE, STYLE_NORMAL)>>), File("pdf", FALSE, <<>>)}

\* The sections of a format template: the name of a heading and the type
\* classify_section gives it
SectionOf(section_name) ==
    [section_name |-> section_name, section_type |-> classify_section(section_name).type]
TemplateSections ==
    SeqsUpTo({SectionOf(n) : n \in {QUOTE_TABLE, ITEM_QUOTE_TABLE, BID_LETTER, <<"a", "b">>}},
             MaxReqSections)

InitRequirements ==
    /\ tfile \in RequirementFiles
    /\ parse_out = None
    /\ fmt_sections \in TemplateSections
    /\ section_requirements = None
    /\ t_probe = None /\ t_out = None
    /\ doc = None /\ probe = None /\ fmt_out = None /\ hd_out = None
    /\ cls_text = <<>> /\ cls_out = None /\ cls_prev = None
    /\ disk = {} /\ clock = 0 /\ registry = None /\ bids = <<>>
    /\ session = None /\ request = None /\ response = None /\ budget = 0
    /\ para = None /\ fill_out = None /\ resolved = None
    /\ job = None /\ filled = None /\ todo = <<>> /\ handled = None
    /\ m_probe = None /\ m_out = None /\ calls = 0

\* match_requirements_to_sections(req_result, fmt_result['sections']), called
\* when the requirements file was parsed
MatchRequirementsToSections ==
    /\ parse_out # None /\ parse_out.op = "parse_requirements_file"
    /\ parse_out.result # Raised
    /\ section_requirements = None
    /\ section_requirements'
         = [matched |-> match_requirements_to_sections(parse_out.result, fmt_sections)]
    /\ UNCHANGED <<tfile, parse_out, fmt_sections>>

NextRequirements ==
    \/ ParseRequirementsFile
          /\ UNCHANGED <<fmtVars, clsVars, appVars, fillVars, fusVars, matVars, reqVars, stpVars>>
    \/ MatchRequirementsToSections
          /\ UNCHANGED <<fmtVars, clsVars, appVars, fillVars, fusVars, matVars, stpVars>>

SpecRequirements == InitRequirements /\ [][NextRequirements]_vars

(***************************************************************************)
(* app.py: uploads and the files of the upload folder                      *)
(*                                                                         *)
(* A stored path is the str save_upload returns, the empty text standing   *)
(* for None.  The upload folder is the set of its files, each a path and   *)
(* the content saved under it.  A content is of one format, "docx" or      *)
(* "pdf" or another one, and a library opens a file when its content is of *)
(* the format the library reads.                                           *)
(***************************************************************************)
\* ALLOWED_EXTENSIONS
ALLOWED_EXTENSIONS ==
    {<<"p", "n", "g">>, <<"j", "p", "g">>, <<"j", "p", "e", "g">>, <<"g", "i", "f">>,
     <<"p", "d", "f">>, <<"d", "o", "c">>, <<"d", "o", "c", "x">>, <<"x", "l", "s">>,
     <<"x", "l", "s", "x">>}
\* TENDER_EXTENSIONS
TENDER_EXTENSIONS == {<<"d", "o", "c", "x">>, <<"p", "d", "f">>}

FOLDER_ATTACHMENTS == <<"a", "t", "t", "a", "c", "h", "m", "e", "n", "t", "s">>
FOLDER_PERSONNEL == <<"p", "e", "r", "s", "o", "n", "n", "e", "l">>
FOLDER_PERFORMANCE == <<"p", "e", "r", "f", "o", "r", "m", "a", "n", "c", "e">>

\* A FileStorage of request.files: its filename and its content
Upload(filename, content) == [filename |-> filename, content |-> content]

\* The index of the last "." of a text, 0 when it has none
LastDot(s) ==
    IF \A i \in 1..Len(s) : s[i] # "." THEN 0
    ELSE CHOOSE i \in 1..Len(s) : s[i] = "." /\ \A j \in (i + 1)..Len(s) : s[j] # "."

\* filename.rsplit('.', 1)[1].lower()
ExtensionOf(filename) == Lower(SubSeq(filename, LastDot(filename) + 1, Len(filename)))

\* allowed_file(filename)
allowed_file(filename) ==
    LastDot(filename) > 0 /\ ExtensionOf(filename) \in ALLOWED_EXTENSIONS

\* The characters secure_filename keeps: [A-Za-z0-9_.-]
AsciiKept ==
    UpperSet \cup LowerSet \cup ASCII_DIGITS \cup {"_", ".", "-"}

\* str.strip(chars)
StripChars(s, chars) ==
    IF SkipClass(s, 1, chars) > SkipClassBack(s, Len(s), chars) THEN <<>>
    ELSE SubSeq(s, SkipClass(s, 1, chars), SkipClassBack(s, Len(s), chars))

\* The characters of the ASCII range that do not stand for themselves: the
\* controls u0000 to u001f and u007f
ASCII_CONTROLS ==
    {"u00" \o h3 \o h4 : h3 \in {"0", "1"}, h4 \in HEX} \cup {"u007f"}

\* The white space of an ASCII text
ASCII_SPACE == WS \cap ({" "} \cup ASCII_CONTROLS)

\* "_".join(s.split()) for a text without white space at its ends
RECURSIVE JoinWords(_)
JoinWords(s) ==
    IF Len(s) = 0 THEN <<>>
    ELSE IF s[1] \in ASCII_SPACE
    THEN <<"_">> \o JoinWords(SubSeq(s, SkipClass(s, 1, ASCII_SPACE), Len(s)))
    ELSE <<s[1]>> \o JoinWords(Tail(s))

\* A character of the ASCII range: one that stands for itself, a control, or
\* the grave accent
IsAscii(c) == Len(c) = 1 \/ c \in ASCII_CONTROLS \/ c = "u0060"

\* The ASCII characters of the compatibility decomposition (NFKD) of a
\* character outside ASCII, for the characters whose decomposition holds one:
\* what unicodedata.normalize('NFKD', c).encode('ascii', 'ignore') leaves.
\* A row is six strings: the character, then its ASCII characters, the row
\* filled up with empty strings.
NFKD_ASCII == <<
    "u00a0", " ", "", "", "", "", "u00a8", " ", "", "", "", "", "u00aa", "a", "", "", "", "",
    "u00af", " ", "", "", "", "", "u00b2", "2", "", "", "", "", "u00b3", "3", "", "", "", "",
    "u00b4", " ", "", "", "", "", "u00b8", " ", "", "", "", "", "u00b9", "1", "", "", "", "",
    "u00ba", "o", "", "", "", "", "u00bc", "1", "4", "", "", "", "u00bd", "1", "2", "", "", "",
    "u00be", "3", "4", "", "", "", "u00c0", "A", "", "", "", "", "u00c1", "A", "", "", "", "",
    "u00c2", "A", "", "", "", "", "u00c3", "A", "", "", "", "", "u00c4", "A", "", "", "", "",
    "u00c5", "A", "", "", "", "", "u00c7", "C", "", "", "", "", "u00c8", "E", "", "", "", "",
    "u00c9", "E", "", "", "", "", "u00ca", "E", "", "", "", "", "u00cb", "E", "", "", "", "",
    "u00cc", "I", "", "", "", "", "u00cd", "I", "", "", "", "", "u00ce", "I", "", "", "", "",
    "u00cf", "I", "", "", "", "", "u00d1", "N", "", "", "", "", "u00d2", "O", "", "", "", "",
    "u00d3", "O", "", "", "", "", "u00d4", "O", "", "", "", "", "u00d5", "O", "", "", "", "",
    "u00d6", "O", "", "", "", "", "u00d9", "U", "", "", "", "", "u00da", "U", "", "", "", "",
    "u00db", "U", "", "", "", "", "u00dc", "U", "", "", "", "", "u00dd", "Y", "", "", "", "",
    "u00e0", "a", "", "", "", "", "u00e1", "a", "", "", "", "", "u00e2", "a", "", "", "", "",
    "u00e3", "a", "", "", "", "", "u00e4", "a", "", "", "", "", "u00e5", "a", "", "", "", "",
    "u00e7", "c", "", "", "", "", "u00e8", "e", "", "", "", "", "u00e9", "e", "", "", "", "",
    "u00ea", "e", "", "", "", "", "u00eb", "e", "", "", "", "", "u00ec", "i", "", "", "", "",
    "u00ed", "i", "", "", "", "", "u00ee", "i", "", "", "", "", "u00ef", "i", "", "", "", "",
    "u00f1", "n", "", "", "", "", "u00f2", "o", "", "", "", "", "u00f3", "o", "", "", "", "",
    "u00f4", "o", "", "", "", "", "u00f5", "o", "", "", "", "", "u00f6", "o", "", "", "", "",
    "u00f9", "u", "", "", "", "", "u00fa", "u", "", "", "", "", "u00fb", "u", "", "", "", "",
    "u00fc", "u", "", "", "", "", "u00fd", "y", "", "", "", "", "u00ff", "y", "", "", "", "",
    "u0100", "A", "", "", "", "", "u0101", "a", "", "", "", "", "u0102", "A", "", "", "", "",
    "u0103", "a", "", "", "", "", "u0104", "A", "", "", "", "", "u0105", "a", "", "", "", "",
    "u0106", "C", "", "", "", "", "u0107", "c", "", "", "", "", "u0108", "C", "", "", "", "",
    "u0109", "c", "", "", "", "", "u010a", "C", "", "", "", "", "u010b", "c", "", "", "", "",
    "u010c", "C", "", "", "", "", "u010d", "c", "", "", "", "", "u010e", "D", "", "", "", "",
    "u010f", "d", "", "", "", "", "u0112", "E", "", "", "", "", "u0113", "e", "", "", "", "",
    "u0114", "E", "", "", "", "", "u0115", "e", "", "", "", "", "u0116", "E", "", "", "", "",
    "u0117", "e", "", "", "", "", "u0118", "E", "", "", "", "", "u0119", "e", "", "", "", "",
    "u011a", "E", "", "", "", "", "u011b", "e", "", "", "", "", "u011c", "G", "", "", "", "",
    "u011d", "g", "", "", "", "", "u011e", "G", "", "", "", "", "u011f", "g", "", "", "", "",
    "u0120", "G", "", "", "", "", "u0121", "g", "", "", "", "", "u0122", "G", "", "", "", "",
    "u0123", "g", "", "", "", "", "u0124", "H", "", "", "", "", "u0125", "h", "", "", "", "",
    "u0128", "I", "", "", "", "", "u0129", "i", "", "", "", "", "u012a", "I", "", "", "", "",
    "u012b", "i", "", "", "", "", "u012c", "I", "", "", "", "", "u012d", "i", "", "", "", "",
    "u012e", "I", "", "", "", "", "u012f", "i", "", "", "", "", "u0130", "I", "", "", "", "",
    "u0132", "I", "J", "", "", "", "u0133", "i", "j", "", "", "", "u0134", "J", "", "", "", "",
    "u0135", "j", "", "", "", "", "u0136", "K", "", "", "", "", "u0137", "k", "", "", "", "",
    "u0139", "L", "", "", "", "", "u013a", "l", "", "", "", "", "u013b", "L", "", "", "", "",
    "u013c", "l", "", "", "", "", "u013d", "L", "", "", "", "", "u013e", "l", "", "", "", "",
    "u013f", "L", "", "", "", "", "u0140", "l", "", "", "", "", "u0143", "N", "", "", "", "",
    "u0144", "n", "", "", "", "", "u0145", "N", "", "", "", "", "u0146", "n", "", "", "", "",
    "u0147", "N", "", "", "", "", "u0148", "n", "", "", "", "", "u0149", "n", "", "", "", "",
    "u014c", "O", "", "", "", "", "u014d", "o", "", "", "", "", "u014e", "O", "", "", "", "",
    "u014f", "o", "", "", "", "", "u0150", "O", "", "", "", "", "u0151", "o", "", "", "", "",
    "u0154", "R", "", "", "", "", "u0155", "r", "", "", "", "", "u0156", "R", "", "", "", "",
    "u0157", "r", "", "", "", "", "u0158", "R", "", "", "", "", "u0159", "r", "", "", "", "",
    "u015a", "S", "", "", "", "", "u015b", "s", "", "", "", "", "u015c", "S", "", "", "", "",
    "u015d", "s", "", "", "", "", "u015e", "S", "", "", "", "", "u015f", "s", "", "", "", "",
    "u0160", "S", "", "", "", "", "u0161", "s", "", "", "", "", "u0162", "T", "", "", "", "",
    "u0163", "t", "", "", "", "", "u0164", "T", "", "", "", "", "u0165", "t", "", "", "", "",
    "u0168", "U", "", "", "", "", "u0169", "u", "", "", "", "", "u016a", "U", "", "", "", "",
    "u016b", "u", "", "", "", "", "u016c", "U", "", "", "", "", "u016d", "u", "", "", "", "",
    "u016e", "U", "", "", "", "", "u016f", "u", "", "", "", "", "u0170", "U", "", "", "", "",
    "u0171", "u", "", "", "", "", "u0172", "U", "", "", "", "", "u0173", "u", "", "", "", "",
    "u0174", "W", "", "", "", "", "u0175", "w", "", "", "", "", "u0176", "Y", "", "", "", "",
    "u0177", "y", "", "", "", "", "u0178", "Y", "", "", "", "", "u0179", "Z", "", "", "", "",
    "u017a", "z", "", "", "", "", "u017b", "Z", "", "", "", "", "u017c", "z", "", "", "", "",
    "u017d", "Z", "", "", "", "", "u017e", "z", "", "", "", "", "u017f", "s", "", "", "", "",
    "u01a0", "O", "", "", "", "", "u01a1", "o", "", "", "", "", "u01af", "U", "", "", "", "",
    "u01b0", "u", "", "", "", "", "u01c4", "D", "Z", "", "", "", "u01c5", "D", "z", "", "", "",
    "u01c6", "d", "z", "", "", "", "u01c7", "L", "J", "", "", "", "u01c8", "L", "j", "", "", "",
    "u01c9", "l", "j", "", "", "", "u01ca", "N", "J", "", "", "", "u01cb", "N", "j", "", "", "",
    "u01cc", "n", "j", "", "", "", "u01cd", "A", "", "", "", "", "u01ce", "a", "", "", "", "",
    "u01cf", "I", "", "", "", "", "u01d0", "i", "", "", "", "", "u01d1", "O", "", "", "", "",
    "u01d2", "o", "", "", "", "", "u01d3", "U", "", "", "", "", "u01d4", "u", "", "", "", "",
    "u01d5", "U", "", "", "", "", "u01d6", "u", "", "", "", "", "u01d7", "U", "", "", "", "",
    "u01d8", "u", "", "", "", "", "u01d9", "U", "", "", "", "", "u01da", "u", "", "", "", "",
    "u01db", "U", "", "", "", "", "u01dc", "u", "", "", "", "", "u01de", "A", "", "", "", "",
    "u01df", "a", "", "", "", "", "u01e0", "A", "", "", "", "", "u01e1", "a", "", "", "", "",
    "u01e6", "G", "", "", "", "", "u01e7", "g", "", "", "", "", "u01e8", "K", "", "", "", "",
    "u01e9", "k", "", "", "", "", "u01ea", "O", "", "", "", "", "u01eb", "o", "", "", "", "",
    "u01ec", "O", "", "", "", "", "u01ed", "o", "", "", "", "", "u01f0", "j", "", "", "", "",
    "u01f1", "D", "Z", "", "", "", "u01f2", "D", "z", "", "", "", "u01f3", "d", "z", "", "", "",
    "u01f4", "G", "", "", "", "", "u01f5", "g", "", "", "", "", "u01f8", "N", "", "", "", "",
    "u01f9", "n", "", "", "", "", "u01fa", "A", "", "", "", "", "u01fb", "a", "", "", "", "",
    "u0200", "A", "", "", "", "", "u0201", "a", "", "", "", "", "u0202", "A", "", "", "", "",
    "u0203", "a", "", "", "", "", "u0204", "E", "", "", "", "", "u0205", "e", "", "", "", "",
    "u0206", "E", "", "", "", "", "u0207", "e", "", "", "", "", "u0208", "I", "", "", "", "",
    "u0209", "i", "", "", "", "", "u020a", "I", "", "", "", "", "u020b", "i", "", "", "", "",
    "u020c", "O", "", "", "", "", "u020d", "o", "", "", "", "", "u020e", "O", "", "", "", "",
    "u020f", "o", "", "", "", "", "u0210", "R", "", "", "", "", "u0211", "r", "", "", "", "",
    "u0212", "R", "", "", "", "", "u0213", "r", "", "", "", "", "u0214", "U", "", "", "", "",
    "u0215", "u", "", "", "", "", "u0216", "U", "", "", "", "", "u0217", "u", "", "", "", "",
    "u0218", "S", "", "", "", "", "u0219", "s", "", "", "", "", "u021a", "T", "", "", "", "",
    "u021b", "t", "", "", "", "", "u021e", "H", "", "", "", "", "u021f", "h", "", "", "", "",
    "u0226", "A", "", "", "", "", "u0227", "a", "", "", "", "", "u0228", "E", "", "", "", "",
    "u0229", "e", "", "", "", "", "u022a", "O", "", "", "", "", "u022b", "o", "", "", "", "",
    "u022c", "O", "", "", "", "", "u022d", "o", "", "", "", "", "u022e", "O", "", "", "", "",
    "u022f", "o", "", "", "", "", "u0230", "O", "", "", "", "", "u0231", "o", "", "", "", "",
    "u0232", "Y", "", "", "", "", "u0233", "y", "", "", "", "", "u02b0", "h", "", "", "", "",
    "u02b2", "j", "", "", "", "", "u02b3", "r", "", "", "", "", "u02b7", "w", "", "", "", "",
    "u02b8", "y", "", "", "", "", "u02d8", " ", "", "", "", "", "u02d9", " ", "", "", "", "",
    "u02da", " ", "", "", "", "", "u02db", " ", "", "", "", "", "u02dc", " ", "", "", "", "",
    "u02dd", " ", "", "", "", "", "u02e1", "l", "", "", "", "", "u02e2", "s", "", "", "", "",
    "u02e3", "x", "", "", "", "", "u037a", " ", "", "", "", "", "u037e", ";", "", "", "", "",
    "u0384", " ", "", "", "", "", "u0385", " ", "", "", "", "", "u1d2c", "A", "", "", "", "",
    "u1d2e", "B", "", "", "", "", "u1d30", "D", "", "", "", "", "u1d31", "E", "", "", "", "",
    "u1d33", "G", "", "", "", "", "u1d34", "H", "", "", "", "", "u1d35", "I", "", "", "", "",
    "u1d36", "J", "", "", "", "", "u1d37", "K", "", "", "", "", "u1d38", "L", "", "", "", "",
    "u1d39", "M", "", "", "", "", "u1d3a", "N", "", "", "", "", "u1d3c", "O", "", "", "", "",
    "u1d3e", "P", "", "", "", "", "u1d3f", "R", "", "", "", "", "u1d40", "T", "", "", "", "",
    "u1d41", "U", "", "", "", "", "u1d42", "W", "", "", "", "", "u1d43", "a", "", "", "", "",
    "u1d47", "b", "", "", "", "", "u1d48", "d", "", "", "", "", "u1d49", "e", "", "", "", "",
    "u1d4d", "g", "", "", "", "", "u1d4f", "k", "", "", "", "", "u1d50", "m", "", "", "", "",
    "u1d52", "o", "", "", "", "", "u1d56", "p", "", "", "", "", "u1d57", "t", "", "", "", "",
    "u1d58", "u", "", "", "", "", "u1d5b", "v", "", "", "", "", "u1d62", "i", "", "", "", "",
    "u1d63", "r", "", "", "", "", "u1d64", "u", "", "", "", "", "u1d65", "v", "", "", "", "",
    "u1d9c", "c", "", "", "", "", "u1da0", "f", "", "", "", "", "u1dbb", "z", "", "", "", "",
    "u1e00", "A", "", "", "", "", "u1e01", "a", "", "", "", "", "u1e02", "B", "", "", "", "",
    "u1e03", "b", "", "", "", "", "u1e04", "B", "", "", "", "", "u1e05", "b", "", "", "", "",
    "u1e06", "B", "", "", "", "", "u1e07", "b", "", "", "", "", "u1e08", "C", "", "", "", "",
    "u1e09", "c", "", "", "", "", "u1e0a", "D", "", "", "", "", "u1e0b", "d", "", "", "", "",
    "u1e0c", "D", "", "", "", "", "u1e0d", "d", "", "", "", "", "u1e0e", "D", "", "", "", "",
    "u1e0f", "d", "", "", "", "", "u1e10", "D", "", "", "", "", "u1e11", "d", "", "", "", "",
    "u1e12", "D", "", "", "", "", "u1e13", "d", "", "", "", "", "u1e14", "E", "", "", "", "",
    "u1e15", "e", "", "", "", "", "u1e16", "E", "", "", "", "", "u1e17", "e", "", "", "", "",
    "u1e18", "E", "", "", "", "", "u1e19", "e", "", "", "", "", "u1e1a", "E", "", "", "", "",
    "u1e1b", "e", "", "", "", "", "u1e1c", "E", "", "", "", "", "u1e1d", "e", "", "", "", "",
    "u1e1e", "F", "", "", "", "", "u1e1f", "f", "", "", "", "", "u1e20", "G", "", "", "", "",
    "u1e21", "g", "", "", "", "", "u1e22", "H", "", "", "", "", "u1e23", "h", "", "", "", "",
    "u1e24", "H", "", "", "", "", "u1e25", "h", "", "", "", "", "u1e26", "H", "", "", "", "",
    "u1e27", "h", "", "", "", "", "u1e28", "H", "", "", "", "", "u1e29", "h", "", "", "", "",
    "u1e2a", "H", "", "", "", "", "u1e2b", "h", "", "", "", "", "u1e2c", "I", "", "", "", "",
    "u1e2d", "i", "", "", "", "", "u1e2e", "I", "", "", "", "", "u1e2f", "i", "", "", "", "",
    "u1e30", "K", "", "", "", "", "u1e31", "k", "", "", "", "", "u1e32", "K", "", "", "", "",
    "u1e33", "k", "", "", "", "", "u1e34", "K", "", "", "", "", "u1e35", "k", "", "", "", "",
    "u1e36", "L", "", "", "", "", "u1e37", "l", "", "", "", "", "u1e38", "L", "", "", "", "",
    "u1e39", "l", "", "", "", "", "u1e3a", "L", "", "", "", "", "u1e3b", "l", "", "", "", "",
    "u1e3c", "L", "", "", "", "", "u1e3d", "l", "", "", "", "", "u1e3e", "M", "", "", "", "",
    "u1e3f", "m", "", "", "", "", "u1e40", "M", "", "", "", "", "u1e41", "m", "", "", "", "",
    "u1e42", "M", "", "", "", "", "u1e43", "m", "", "", "", "", "u1e44", "N", "", "", "", "",
    "u1e45", "n", "", "", "", "", "u1e46", "N", "", "", "", "", "u1e47", "n", "", "", "", "",
    "u1e48", "N", "", "", "", "", "u1e49", "n", "", "", "", "", "u1e4a", "N", "", "", "", "",
    "u1e4b", "n", "", "", "", "", "u1e4c", "O", "", "", "", "", "u1e4d", "o", "", "", "", "",
    "u1e4e", "O", "", "", "", "", "u1e4f", "o", "", "", "", "", "u1e50", "O", "", "", "", "",
    "u1e51", "o", "", "", "", "", "u1e52", "O", "", "", "", "", "u1e53", "o", "", "", "", "",
    "u1e54", "P", "", "", "", "", "u1e55", "p", "", "", "", "", "u1e56", "P", "", "", "", "",
    "u1e57", "p", "", "", "", "", "u1e58", "R", "", "", "", "", "u1e59", "r", "", "", "", "",
    "u1e5a", "R", "", "", "", "", "u1e5b", "r", "", "", "", "", "u1e5c", "R", "", "", "", "",
    "u1e5d", "r", "", "", "", "", "u1e5e", "R", "", "", "", "", "u1e5f", "r", "", "", "", "",
    "u1e60", "S", "", "", "", "", "u1e61", "s", "", "", "", "", "u1e62", "S", "", "", "", "",
    "u1e63", "s", "", "", "", "", "u1e64", "S", "", "", "", "", "u1e65", "s", "", "", "", "",
    "u1e66", "S", "", "", "", "", "u1e67", "s", "", "", "", "", "u1e68", "S", "", "", "", "",
    "u1e69", "s", "", "", "", "", "u1e6a", "T", "", "", "", "", "u1e6b", "t", "", "", "", "",
    "u1e6c", "T", "", "", "", "", "u1e6d", "t", "", "", "", "", "u1e6e", "T", "", "", "", "",
    "u1e6f", "t", "", "", "", "", "u1e70", "T", "", "", "", "", "u1e71", "t", "", "", "", "",
    "u1e72", "U", "", "", "", "", "u1e73", "u", "", "", "", "", "u1e74", "U", "", "", "", "",
    "u1e75", "u", "", "", "", "", "u1e76", "U", "", "", "", "", "u1e77", "u", "", "", "", "",
    "u1e78", "U", "", "", "", "", "u1e79", "u", "", "", "", "", "u1e7a", "U", "", "", "", "",
    "u1e7b", "u", "", "", "", "", "u1e7c", "V", "", "", "", "", "u1e7d", "v", "", "", "", "",
    "u1e7e", "V", "", "", "", "", "u1e7f", "v", "", "", "", "", "u1e80", "W", "", "", "", "",
    "u1e81", "w", "", "", "", "", "u1e82", "W", "", "", "", "", "u1e83", "w", "", "", "", "",
    "u1e84", "W", "", "", "", "", "u1e85", "w", "", "", "", "", "u1e86", "W", "", "", "", "",
    "u1e87", "w", "", "", "", "", "u1e88", "W", "", "", "", "", "u1e89", "w", "", "", "", "",
    "u1e8a", "X", "", "", "", "", "u1e8b", "x", "", "", "", "", "u1e8c", "X", "", "", "", "",
    "u1e8d", "x", "", "", "", "", "u1e8e", "Y", "", "", "", "", "u1e8f", "y", "", "", "", "",
    "u1e90", "Z", "", "", "", "", "u1e91", "z", "", "", "", "", "u1e92", "Z", "", "", "", "",
    "u1e93", "z", "", "", "", "", "u1e94", "Z", "", "", "", "", "u1e95", "z", "", "", "", "",
    "u1e96", "h", "", "", "", "", "u1e97", "t", "", "", "", "", "u1e98", "w", "", "", "", "",
    "u1e99", "y", "", "", "", "", "u1e9a", "a", "", "", "", "", "u1e9b", "s", "", "", "", "",
    "u1ea0", "A", "", "", "", "", "u1ea1", "a", "", "", "", "", "u1ea2", "A", "", "", "", "",
    "u1ea3", "a", "", "", "", "", "u1ea4", "A", "", "", "", "", "u1ea5", "a", "", "", "", "",
    "u1ea6", "A", "", "", "", "", "u1ea7", "a", "", "", "", "", "u1ea8", "A", "", "", "", "",
    "u1ea9", "a", "", "", "", "", "u1eaa", "A", "", "", "", "", "u1eab", "a", "", "", "", "",
    "u1eac", "A", "", "", "", "", "u1ead", "a", "", "", "", "", "u1eae", "A", "", "", "", "",
    "u1eaf", "a", "", "", "", "", "u1eb0", "A", "", "", "", "", "u1eb1", "a", "", "", "", "",
    "u1eb2", "A", "", "", "", "", "u1eb3", "a", "", "", "", "", "u1eb4", "A", "", "", "", "",
    "u1eb5", "a", "", "", "", "", "u1eb6", "A", "", "", "", "", "u1eb7", "a", "", "", "", "",
    "u1eb8", "E", "", "", "", "", "u1eb9", "e", "", "", "", "", "u1eba", "E", "", "", "", "",
    "u1ebb", "e", "", "", "", "", "u1ebc", "E", "", "", "", "", "u1ebd", "e", "", "", "", "",
    "u1ebe", "E", "", "", "", "", "u1ebf", "e", "", "", "", "", "u1ec0", "E", "", "", "", "",
    "u1ec1", "e", "", "", "", "", "u1ec2", "E", "", "", "", "", "u1ec3", "e", "", "", "", "",
    "u1ec4", "E", "", "", "", "", "u1ec5", "e", "", "", "", "", "u1ec6", "E", "", "", "", "",
    "u1ec7", "e", "", "", "", "", "u1ec8", "I", "", "", "", "", "u1ec9", "i", "", "", "", "",
    "u1eca", "I", "", "", "", "", "u1ecb", "i", "", "", "", "", "u1ecc", "O", "", "", "", "",
    "u1ecd", "o", "", "", "", "", "u1ece", "O", "", "", "", "", "u1ecf", "o", "", "", "", "",
    "u1ed0", "O", "", "", "", "", "u1ed1", "o", "", "", "", "", "u1ed2", "O", "", "", "", "",
    "u1ed3", "o", "", "", "", "", "u1ed4", "O", "", "", "", "", "u1ed5", "o", "", "", "", "",
    "u1ed6", "O", "", "", "", "", "u1ed7", "o", "", "", "", "", "u1ed8", "O", "", "", "", "",
    "u1ed9", "o", "", "", "", "", "u1eda", "O", "", "", "", "", "u1edb", "o", "", "", "", "",
    "u1edc", "O", "", "", "", "", "u1edd", "o", "", "", "", "", "u1ede", "O", "", "", "", "",
    "u1edf", "o", "", "", "", "", "u1ee0", "O", "", "", "", "", "u1ee1", "o", "", "", "", "",
    "u1ee2", "O", "", "", "", "", "u1ee3", "o", "", "", "", "", "u1ee4", "U", "", "", "", "",
    "u1ee5", "u", "", "", "", "", "u1ee6", "U", "", "", "", "", "u1ee7", "u", "", "", "", "",
    "u1ee8", "U", "", "", "", "", "u1ee9", "u", "", "", "", "", "u1eea", "U", "", "", "", "",
    "u1eeb", "u", "", "", "", "", "u1eec", "U", "", "", "", "", "u1eed", "u", "", "", "", "",
    "u1eee", "U", "", "", "", "", "u1eef", "u", "", "", "", "", "u1ef0", "U", "", "", "", "",
    "u1ef1", "u", "", "", "", "", "u1ef2", "Y", "", "", "", "", "u1ef3", "y", "", "", "", "",
    "u1ef4", "Y", "", "", "", "", "u1ef5", "y", "", "", "", "", "u1ef6", "Y", "", "", "", "",
    "u1ef7", "y", "", "", "", "", "u1ef8", "Y", "", "", "", "", "u1ef9", "y", "", "", "", "",
    "u1fbd", " ", "", "", "", "", "u1fbf", " ", "", "", "", "", "u1fc0", " ", "", "", "", "",
    "u1fc1", " ", "", "", "", "", "u1fcd", " ", "", "", "", "", "u1fce", " ", "", "", "", "",
    "u1fcf", " ", "", "", "", "", "u1fdd", " ", "", "", "", "", "u1fde", " ", "", "", "", "",
    "u1fdf", " ", "", "", "", "", "u1fed", " ", "", "", "", "", "u1fee", " ", "", "", "", "",
    "u1fef", "u0060", "", "", "", "", "u1ffd", " ", "", "", "", "", "u1ffe", " ", "", "", "",
    "", "u2000", " ", "", "", "", "", "u2001", " ", "", "", "", "", "u2002", " ", "", "", "",
    "", "u2003", " ", "", "", "", "", "u2004", " ", "", "", "", "", "u2005", " ", "", "", "",
    "", "u2006", " ", "", "", "", "", "u2007", " ", "", "", "", "", "u2008", " ", "", "", "",
    "", "u2009", " ", "", "", "", "", "u200a", " ", "", "", "", "", "u2017", " ", "", "", "",
    "", "u2024", ".", "", "", "", "", "u2025", ".", ".", "", "", "", "u2026", ".", ".", ".", "",
    "", "u202f", " ", "", "", "", "", "u203c", "!", "!", "", "", "", "u203e", " ", "", "", "",
    "", "u2047", "?", "?", "", "", "", "u2048", "?", "!", "", "", "", "u2049", "!", "?", "", "",
    "", "u205f", " ", "", "", "", "", "u2070", "0", "", "", "", "", "u2071", "i", "", "", "",
    "", "u2074", "4", "", "", "", "", "u2075", "5", "", "", "", "", "u2076", "6", "", "", "",
    "", "u2077", "7", "", "", "", "", "u2078", "8", "", "", "", "", "u2079", "9", "", "", "",
    "", "u207a", "+", "", "", "", "", "u207c", "=", "", "", "", "", "u207d", "(", "", "", "",
    "", "u207e", ")", "", "", "", "", "u207f", "n", "", "", "", "", "u2080", "0", "", "", "",
    "", "u2081", "1", "", "", "", "", "u2082", "2", "", "", "", "", "u2083", "3", "", "", "",
    "", "u2084", "4", "", "", "", "", "u2085", "5", "", "", "", "", "u2086", "6", "", "", "",
    "", "u2087", "7", "", "", "", "", "u2088", "8", "", "", "", "", "u2089", "9", "", "", "",
    "", "u208a", "+", "", "", "", "", "u208c", "=", "", "", "", "", "u208d", "(", "", "", "",
    "", "u208e", ")", "", "", "", "", "u2090", "a", "", "", "", "", "u2091", "e", "", "", "",
    "", "u2092", "o", "", "", "", "", "u2093", "x", "", "", "", "", "u2095", "h", "", "", "",
    "", "u2096", "k", "", "", "", "", "u2097", "l", "", "", "", "", "u2098", "m", "", "", "",
    "", "u2099", "n", "", "", "", "", "u209a", "p", "", "", "", "", "u209b", "s", "", "", "",
    "", "u209c", "t", "", "", "", "", "u20a8", "R", "s", "", "", "", "u2100", "a", "/", "c", "",
    "", "u2101", "a", "/", "s", "", "", "u2102", "C", "", "", "", "", "u2103", "C", "", "", "",
    "", "u2105", "c", "/", "o", "", "", "u2106", "c", "/", "u", "", "", "u2109", "F", "", "",
    "", "", "u210a", "g", "", "", "", "", "u210b", "H", "", "", "", "", "u210c", "H", "", "",
    "", "", "u210d", "H", "", "", "", "", "u210e", "h", "", "", "", "", "u2110", "I", "", "",
    "", "", "u2111", "I", "", "", "", "", "u2112", "L", "", "", "", "", "u2113", "l", "", "",
    "", "", "u2115", "N", "", "", "", "", "u2116", "N", "o", "", "", "", "u2119", "P", "", "",
    "", "", "u211a", "Q", "", "", "", "", "u211b", "R", "", "", "", "", "u211c", "R", "", "",
    "", "", "u211d", "R", "", "", "", "", "u2120", "S", "M", "", "", "", "u2121", "T", "E", "L",
    "", "", "u2122", "T", "M", "", "", "", "u2124", "Z", "", "", "", "", "u2128", "Z", "", "",
    "", "", "u212a", "K", "", "", "", "", "u212b", "A", "", "", "", "", "u212c", "B", "", "",
    "", "", "u212d", "C", "", "", "", "", "u212f", "e", "", "", "", "", "u2130", "E", "", "",
    "", "", "u2131", "F", "", "", "", "", "u2133", "M", "", "", "", "", "u2134", "o", "", "",
    "", "", "u2139", "i", "", "", "", "", "u213b", "F", "A", "X", "", "", "u2145", "D", "", "",
    "", "", "u2146", "d", "", "", "", "", "u2147", "e", "", "", "", "", "u2148", "i", "", "",
    "", "", "u2149", "j", "", "", "", "", "u2150", "1", "7", "", "", "", "u2151", "1", "9", "",
    "", "", "u2152", "1", "1", "0", "", "", "u2153", "1", "3", "", "", "", "u2154", "2", "3",
    "", "", "", "u2155", "1", "5", "", "", "", "u2156", "2", "5", "", "", "", "u2157", "3", "5",
    "", "", "", "u2158", "4", "5", "", "", "", "u2159", "1", "6", "", "", "", "u215a", "5", "6",
    "", "", "", "u215b", "1", "8", "", "", "", "u215c", "3", "8", "", "", "", "u215d", "5", "8",
    "", "", "", "u215e", "7", "8", "", "", "", "u215f", "1", "", "", "", "", "u2160", "I", "",
    "", "", "", "u2161", "I", "I", "", "", "", "u2162", "I", "I", "I", "", "", "u2163", "I",
    "V", "", "", "", "u2164", "V", "", "", "", "", "u2165", "V", "I", "", "", "", "u2166", "V",
    "I", "I", "", "", "u2167", "V", "I", "I", "I", "", "u2168", "I", "X", "", "", "", "u2169",
    "X", "", "", "", "", "u216a", "X", "I", "", "", "", "u216b", "X", "I", "I", "", "", "u216c",
    "L", "", "", "", "", "u216d", "C", "", "", "", "", "u216e", "D", "", "", "", "", "u216f",
    "M", "", "", "", "", "u2170", "i", "", "", "", "", "u2171", "i", "i", "", "", "", "u2172",
    "i", "i", "i", "", "", "u2173", "i", "v", "", "", "", "u2174", "v", "", "", "", "", "u2175",
    "v", "i", "", "", "", "u2176", "v", "i", "i", "", "", "u2177", "v", "i", "i", "i", "",
    "u2178", "i", "x", "", "", "", "u2179", "x", "", "", "", "", "u217a", "x", "i", "", "", "",
    "u217b", "x", "i", "i", "", "", "u217c", "l", "", "", "", "", "u217d", "c", "", "", "", "",
    "u217e", "d", "", "", "", "", "u217f", "m", "", "", "", "", "u2189", "0", "3", "", "", "",
    "u2260", "=", "", "", "", "", "u226e", "<", "", "", "", "", "u226f", ">", "", "", "", "",
    "u2460", "1", "", "", "", "", "u2461", "2", "", "", "", "", "u2462", "3", "", "", "", "",
    "u2463", "4", "", "", "", "", "u2464", "5", "", "", "", "", "u2465", "6", "", "", "", "",
    "u2466", "7", "", "", "", "", "u2467", "8", "", "", "", "", "u2468", "9", "", "", "", "",
    "u2469", "1", "0", "", "", "", "u246a", "1", "1", "", "", "", "u246b", "1", "2", "", "", "",
    "u246c", "1", "3", "", "", "", "u246d", "1", "4", "", "", "", "u246e", "1", "5", "", "", "",
    "u246f", "1", "6", "", "", "", "u2470", "1", "7", "", "", "", "u2471", "1", "8", "", "", "",
    "u2472", "1", "9", "", "", "", "u2473", "2", "0", "", "", "", "u2474", "(", "1", ")", "",
    "", "u2475", "(", "2", ")", "", "", "u2476", "(", "3", ")", "", "", "u2477", "(", "4", ")",
    "", "", "u2478", "(", "5", ")", "", "", "u2479", "(", "6", ")", "", "", "u247a", "(", "7",
    ")", "", "", "u247b", "(", "8", ")", "", "", "u247c", "(", "9", ")", "", "", "u247d", "(",
    "1", "0", ")", "", "u247e", "(", "1", "1", ")", "", "u247f", "(", "1", "2", ")", "",
    "u2480", "(", "1", "3", ")", "", "u2481", "(", "1", "4", ")", "", "u2482", "(", "1", "5",
    ")", "", "u2483", "(", "1", "6", ")", "", "u2484", "(", "1", "7", ")", "", "u2485", "(",
    "1", "8", ")", "", "u2486", "(", "1", "9", ")", "", "u2487", "(", "2", "0", ")", "",
    "u2488", "1", ".", "", "", "", "u2489", "2", ".", "", "", "", "u248a", "3", ".", "", "", "",
    "u248b", "4", ".", "", "", "", "u248c", "5", ".", "", "", "", "u248d", "6", ".", "", "", "",
    "u248e", "7", ".", "", "", "", "u248f", "8", ".", "", "", "", "u2490", "9", ".", "", "", "",
    "u2491", "1", "0", ".", "", "", "u2492", "1", "1", ".", "", "", "u2493", "1", "2", ".", "",
    "", "u2494", "1", "3", ".", "", "", "u2495", "1", "4", ".", "", "", "u2496", "1", "5", ".",
    "", "", "u2497", "1", "6", ".", "", "", "u2498", "1", "7", ".", "", "", "u2499", "1", "8",
    ".", "", "", "u249a", "1", "9", ".", "", "", "u249b", "2", "0", ".", "", "", "u249c", "(",
    "a", ")", "", "", "u249d", "(", "b", ")", "", "", "u249e", "(", "c", ")", "", "", "u249f",
    "(", "d", ")", "", "", "u24a0", "(", "e", ")", "", "", "u24a1", "(", "f", ")", "", "",
    "u24a2", "(", "g", ")", "", "", "u24a3", "(", "h", ")", "", "", "u24a4", "(", "i", ")", "",
    "", "u24a5", "(", "j", ")", "", "", "u24a6", "(", "k", ")", "", "", "u24a7", "(", "l", ")",
    "", "", "u24a8", "(", "m", ")", "", "", "u24a9", "(", "n", ")", "", "", "u24aa", "(", "o",
    ")", "", "", "u24ab", "(", "p", ")", "", "", "u24ac", "(", "q", ")", "", "", "u24ad", "(",
    "r", ")", "", "", "u24ae", "(", "s", ")", "", "", "u24af", "(", "t", ")", "", "", "u24b0",
    "(", "u", ")", "", "", "u24b1", "(", "v", ")", "", "", "u24b2", "(", "w", ")", "", "",
    "u24b3", "(", "x", ")", "", "", "u24b4", "(", "y", ")", "", "", "u24b5", "(", "z", ")", "",
    "", "u24b6", "A", "", "", "", "", "u24b7", "B", "", "", "", "", "u24b8", "C", "", "", "",
    "", "u24b9", "D", "", "", "", "", "u24ba", "E", "", "", "", "", "u24bb", "F", "", "", "",
    "", "u24bc", "G", "", "", "", "", "u24bd", "H", "", "", "", "", "u24be", "I", "", "", "",
    "", "u24bf", "J", "", "", "", "", "u24c0", "K", "", "", "", "", "u24c1", "L", "", "", "",
    "", "u24c2", "M", "", "", "", "", "u24c3", "N", "", "", "", "", "u24c4", "O", "", "", "",
    "", "u24c5", "P", "", "", "", "", "u24c6", "Q", "", "", "", "", "u24c7", "R", "", "", "",
    "", "u24c8", "S", "", "", "", "", "u24c9", "T", "", "", "", "", "u24ca", "U", "", "", "",
    "", "u24cb", "V", "", "", "", "", "u24cc", "W", "", "", "", "", "u24cd", "X", "", "", "",
    "", "u24ce", "Y", "", "", "", "", "u24cf", "Z", "", "", "", "", "u24d0", "a", "", "", "",
    "", "u24d1", "b", "", "", "", "", "u24d2", "c", "", "", "", "", "u24d3", "d", "", "", "",
    "", "u24d4", "e", "", "", "", "", "u24d5", "f", "", "", "", "", "u24d6", "g", "", "", "",
    "", "u24d7", "h", "", "", "", "", "u24d8", "i", "", "", "", "", "u24d9", "j", "", "", "",
    "", "u24da", "k", "", "", "", "", "u24db", "l", "", "", "", "", "u24dc", "m", "", "", "",
    "", "u24dd", "n", "", "", "", "", "u24de", "o", "", "", "", "", "u24df", "p", "", "", "",
    "", "u24e0", "q", "", "", "", "", "u24e1", "r", "", "", "", "", "u24e2", "s", "", "", "",
    "", "u24e3", "t", "", "", "", "", "u24e4", "u", "", "", "", "", "u24e5", "v", "", "", "",
    "", "u24e6", "w", "", "", "", "", "u24e7", "x", "", "", "", "", "u24e8", "y", "", "", "",
    "", "u24e9", "z", "", "", "", "", "u24ea", "0", "", "", "", "", "u2a74", ":", ":", "=", "",
    "", "u2a75", "=", "=", "", "", "", "u2a76", "=", "=", "=", "", "", "u2c7c", "j", "", "", "",
    "", "u2c7d", "V", "", "", "", "", "u3000", " ", "", "", "", "", "u309b", " ", "", "", "",
    "", "u309c", " ", "", "", "", "", "u3200", "(", ")", "", "", "", "u3201", "(", ")", "", "",
    "", "u3202", "(", ")", "", "", "", "u3203", "(", ")", "", "", "", "u3204", "(", ")", "", "",
    "", "u3205", "(", ")", "", "", "", "u3206", "(", ")", "", "", "", "u3207", "(", ")", "", "",
    "", "u3208", "(", ")", "", "", "", "u3209", "(", ")", "", "", "", "u320a", "(", ")", "", "",
    "", "u320b", "(", ")", "", "", "", "u320c", "(", ")", "", "", "", "u320d", "(", ")", "", "",
    "", "u320e", "(", ")", "", "", "", "u320f", "(", ")", "", "", "", "u3210", "(", ")", "", "",
    "", "u3211", "(", ")", "", "", "", "u3212", "(", ")", "", "", "", "u3213", "(", ")", "", "",
    "", "u3214", "(", ")", "", "", "", "u3215", "(", ")", "", "", "", "u3216", "(", ")", "", "",
    "", "u3217", "(", ")", "", "", "", "u3218", "(", ")", "", "", "", "u3219", "(", ")", "", "",
    "", "u321a", "(", ")", "", "", "", "u321b", "(", ")", "", "", "", "u321c", "(", ")", "", "",
    "", "u321d", "(", ")", "", "", "", "u321e", "(", ")", "", "", "", "u3220", "(", ")", "", "",
    "", "u3221", "(", ")", "", "", "", "u3222", "(", ")", "", "", "", "u3223", "(", ")", "", "",
    "", "u3224", "(", ")", "", "", "", "u3225", "(", ")", "", "", "", "u3226", "(", ")", "", "",
    "", "u3227", "(", ")", "", "", "", "u3228", "(", ")", "", "", "", "u3229", "(", ")", "", "",
    "", "u322a", "(", ")", "", "", "", "u322b", "(", ")", "", "", "", "u322c", "(", ")", "", "",
    "", "u322d", "(", ")", "", "", "", "u322e", "(", ")", "", "", "", "u322f", "(", ")", "", "",
    "", "u3230", "(", ")", "", "", "", "u3231", "(", ")", "", "", "", "u3232", "(", ")", "", "",
    "", "u3233", "(", ")", "", "", "", "u3234", "(", ")", "", "", "", "u3235", "(", ")", "", "",
    "", "u3236", "(", ")", "", "", "", "u3237", "(", ")", "", "", "", "u3238", "(", ")", "", "",
    "", "u3239", "(", ")", "", "", "", "u323a", "(", ")", "", "", "", "u323b", "(", ")", "", "",
    "", "u323c", "(", ")", "", "", "", "u323d", "(", ")", "", "", "", "u323e", "(", ")", "", "",
    "", "u323f", "(", ")", "", "", "", "u3240", "(", ")", "", "", "", "u3241", "(", ")", "", "",
    "", "u3242", "(", ")", "", "", "", "u3243", "(", ")", "", "", "", "u3250", "P", "T", "E",
    "", "", "u3251", "2", "1", "", "", "", "u3252", "2", "2", "", "", "", "u3253", "2", "3", "",
    "", "", "u3254", "2", "4", "", "", "", "u3255", "2", "5", "", "", "", "u3256", "2", "6", "",
    "", "", "u3257", "2", "7", "", "", "", "u3258", "2", "8", "", "", "", "u3259", "2", "9", "",
    "", "", "u325a", "3", "0", "", "", "", "u325b", "3", "1", "", "", "", "u325c", "3", "2", "",
    "", "", "u325d", "3", "3", "", "", "", "u325e", "3", "4", "", "", "", "u325f", "3", "5", "",
    "", "", "u32b1", "3", "6", "", "", "", "u32b2", "3", "7", "", "", "", "u32b3", "3", "8", "",
    "", "", "u32b4", "3", "9", "", "", "", "u32b5", "4", "0", "", "", "", "u32b6", "4", "1", "",
    "", "", "u32b7", "4", "2", "", "", "", "u32b8", "4", "3", "", "", "", "u32b9", "4", "4", "",
    "", "", "u32ba", "4", "5", "", "", "", "u32bb", "4", "6", "", "", "", "u32bc", "4", "7", "",
    "", "", "u32bd", "4", "8", "", "", "", "u32be", "4", "9", "", "", "", "u32bf", "5", "0", "",
    "", "", "u32c0", "1", "", "", "", "", "u32c1", "2", "", "", "", "", "u32c2", "3", "", "",
    "", "", "u32c3", "4", "", "", "", "", "u32c4", "5", "", "", "", "", "u32c5", "6", "", "",
    "", "", "u32c6", "7", "", "", "", "", "u32c7", "8", "", "", "", "", "u32c8", "9", "", "",
    "", "", "u32c9", "1", "0", "", "", "", "u32ca", "1", "1", "", "", "", "u32cb", "1", "2", "",
    "", "", "u32cc", "H", "g", "", "", "", "u32cd", "e", "r", "g", "", "", "u32ce", "e", "V",
    "", "", "", "u32cf", "L", "T", "D", "", "", "u3358", "0", "", "", "", "", "u3359", "1", "",
    "", "", "", "u335a", "2", "", "", "", "", "u335b", "3", "", "", "", "", "u335c", "4", "",
    "", "", "", "u335d", "5", "", "", "", "", "u335e", "6", "", "", "", "", "u335f", "7", "",
    "", "", "", "u3360", "8", "", "", "", "", "u3361", "9", "", "", "", "", "u3362", "1", "0",
    "", "", "", "u3363", "1", "1", "", "", "", "u3364", "1", "2", "", "", "", "u3365", "1", "3",
    "", "", "", "u3366", "1", "4", "", "", "", "u3367", "1", "5", "", "", "", "u3368", "1", "6",
    "", "", "", "u3369", "1", "7", "", "", "", "u336a", "1", "8", "", "", "", "u336b", "1", "9",
    "", "", "", "u336c", "2", "0", "", "", "", "u336d", "2", "1", "", "", "", "u336e", "2", "2",
    "", "", "", "u336f", "2", "3", "", "", "", "u3370", "2", "4", "", "", "", "u3371", "h", "P",
    "a", "", "", "u3372", "d", "a", "", "", "", "u3373", "A", "U", "", "", "", "u3374", "b",
    "a", "r", "", "", "u3375", "o", "V", "", "", "", "u3376", "p", "c", "", "", "", "u3377",
    "d", "m", "", "", "", "u3378", "d", "m", "2", "", "", "u3379", "d", "m", "3", "", "",
    "u337a", "I", "U", "", "", "", "u3380", "p", "A", "", "", "", "u3381", "n", "A", "", "", "",
    "u3382", "A", "", "", "", "", "u3383", "m", "A", "", "", "", "u3384", "k", "A", "", "", "",
    "u3385", "K", "B", "", "", "", "u3386", "M", "B", "", "", "", "u3387", "G", "B", "", "", "",
    "u3388", "c", "a", "l", "", "", "u3389", "k", "c", "a", "l", "", "u338a", "p", "F", "", "",
    "", "u338b", "n", "F", "", "", "", "u338c", "F", "", "", "", "", "u338d", "g", "", "", "",
    "", "u338e", "m", "g", "", "", "", "u338f", "k", "g", "", "", "", "u3390", "H", "z", "", "",
    "", "u3391", "k", "H", "z", "", "", "u3392", "M", "H", "z", "", "", "u3393", "G", "H", "z",
    "", "", "u3394", "T", "H", "z", "", "", "u3395", "l", "", "", "", "", "u3396", "m", "l", "",
    "", "", "u3397", "d", "l", "", "", "", "u3398", "k", "l", "", "", "", "u3399", "f", "m", "",
    "", "", "u339a", "n", "m", "", "", "", "u339b", "m", "", "", "", "", "u339c", "m", "m", "",
    "", "", "u339d", "c", "m", "", "", "", "u339e", "k", "m", "", "", "", "u339f", "m", "m",
    "2", "", "", "u33a0", "c", "m", "2", "", "", "u33a1", "m", "2", "", "", "", "u33a2", "k",
    "m", "2", "", "", "u33a3", "m", "m", "3", "", "", "u33a4", "c", "m", "3", "", "", "u33a5",
    "m", "3", "", "", "", "u33a6", "k", "m", "3", "", "", "u33a7", "m", "s", "", "", "",
    "u33a8", "m", "s", "2", "", "", "u33a9", "P", "a", "", "", "", "u33aa", "k", "P", "a", "",
    "", "u33ab", "M", "P", "a", "", "", "u33ac", "G", "P", "a", "", "", "u33ad", "r", "a", "d",
    "", "", "u33ae", "r", "a", "d", "s", "", "u33af", "r", "a", "d", "s", "2", "u33b0", "p",
    "s", "", "", "", "u33b1", "n", "s", "", "", "", "u33b2", "s", "", "", "", "", "u33b3", "m",
    "s", "", "", "", "u33b4", "p", "V", "", "", "", "u33b5", "n", "V", "", "", "", "u33b6", "V",
    "", "", "", "", "u33b7", "m", "V", "", "", "", "u33b8", "k", "V", "", "", "", "u33b9", "M",
    "V", "", "", "", "u33ba", "p", "W", "", "", "", "u33bb", "n", "W", "", "", "", "u33bc", "W",
    "", "", "", "", "u33bd", "m", "W", "", "", "", "u33be", "k", "W", "", "", "", "u33bf", "M",
    "W", "", "", "", "u33c0", "k", "", "", "", "", "u33c1", "M", "", "", "", "", "u33c2", "a",
    ".", "m", ".", "", "u33c3", "B", "q", "", "", "", "u33c4", "c", "c", "", "", "", "u33c5",
    "c", "d", "", "", "", "u33c6", "C", "k", "g", "", "", "u33c7", "C", "o", ".", "", "",
    "u33c8", "d", "B", "", "", "", "u33c9", "G", "y", "", "", "", "u33ca", "h", "a", "", "", "",
    "u33cb", "H", "P", "", "", "", "u33cc", "i", "n", "", "", "", "u33cd", "K", "K", "", "", "",
    "u33ce", "K", "M", "", "", "", "u33cf", "k", "t", "", "", "", "u33d0", "l", "m", "", "", "",
    "u33d1", "l", "n", "", "", "", "u33d2", "l", "o", "g", "", "", "u33d3", "l", "x", "", "",
    "", "u33d4", "m", "b", "", "", "", "u33d5", "m", "i", "l", "", "", "u33d6", "m", "o", "l",
    "", "", "u33d7", "P", "H", "", "", "", "u33d8", "p", ".", "m", ".", "", "u33d9", "P", "P",
    "M", "", "", "u33da", "P", "R", "", "", "", "u33db", "s", "r", "", "", "", "u33dc", "S",
    "v", "", "", "", "u33dd", "W", "b", "", "", "", "u33de", "V", "m", "", "", "", "u33df", "A",
    "m", "", "", "", "u33e0", "1", "", "", "", "", "u33e1", "2", "", "", "", "", "u33e2", "3",
    "", "", "", "", "u33e3", "4", "", "", "", "", "u33e4", "5", "", "", "", "", "u33e5", "6",
    "", "", "", "", "u33e6", "7", "", "", "", "", "u33e7", "8", "", "", "", "", "u33e8", "9",
    "", "", "", "", "u33e9", "1", "0", "", "", "", "u33ea", "1", "1", "", "", "", "u33eb", "1",
    "2", "", "", "", "u33ec", "1", "3", "", "", "", "u33ed", "1", "4", "", "", "", "u33ee", "1",
    "5", "", "", "", "u33ef", "1", "6", "", "", "", "u33f0", "1", "7", "", "", "", "u33f1", "1",
    "8", "", "", "", "u33f2", "1", "9", "", "", "", "u33f3", "2", "0", "", "", "", "u33f4", "2",
    "1", "", "", "", "u33f5", "2", "2", "", "", "", "u33f6", "2", "3", "", "", "", "u33f7", "2",
    "4", "", "", "", "u33f8", "2", "5", "", "", "", "u33f9", "2", "6", "", "", "", "u33fa", "2",
    "7", "", "", "", "u33fb", "2", "8", "", "", "", "u33fc", "2", "9", "", "", "", "u33fd", "3",
    "0", "", "", "", "u33fe", "3", "1", "", "", "", "u33ff", "g", "a", "l", "", "", "ua7f2",
    "C", "", "", "", "", "ua7f3", "F", "", "", "", "", "ua7f4", "Q", "", "", "", "", "ufb00",
    "f", "f", "", "", "", "ufb01", "f", "i", "", "", "", "ufb02", "f", "l", "", "", "", "ufb03",
    "f", "f", "i", "", "", "ufb04", "f", "f", "l", "", "", "ufb05", "s", "t", "", "", "",
    "ufb06", "s", "t", "", "", "", "ufb29", "+", "", "", "", "", "ufc5e", " ", "", "", "", "",
    "ufc5f", " ", "", "", "", "", "ufc60", " ", "", "", "", "", "ufc61", " ", "", "", "", "",
    "ufc62", " ", "", "", "", "", "ufc63", " ", "", "", "", "", "ufdfa", " ", " ", " ", "", "",
    "ufdfb", " ", "", "", "", "", "ufe10", ",", "", "", "", "", "ufe13", ":", "", "", "", "",
    "ufe14", ";", "", "", "", "", "ufe15", "!", "", "", "", "", "ufe16", "?", "", "", "", "",
    "ufe19", ".", ".", ".", "", "", "ufe30", ".", ".", "", "", "", "ufe33", "_", "", "", "", "",
    "ufe34", "_", "", "", "", "", "ufe35", "(", "", "", "", "", "ufe36", ")", "", "", "", "",
    "ufe37", "{", "", "", "", "", "ufe38", "}", "", "", "", "", "ufe47", "[", "", "", "", "",
    "ufe48", "]", "", "", "", "", "ufe49", " ", "", "", "", "", "ufe4a", " ", "", "", "", "",
    "ufe4b", " ", "", "", "", "", "ufe4c", " ", "", "", "", "", "ufe4d", "_", "", "", "", "",
    "ufe4e", "_", "", "", "", "", "ufe4f", "_", "", "", "", "", "ufe50", ",", "", "", "", "",
    "ufe52", ".", "", "", "", "", "ufe54", ";", "", "", "", "", "ufe55", ":", "", "", "", "",
    "ufe56", "?", "", "", "", "", "ufe57", "!", "", "", "", "", "ufe59", "(", "", "", "", "",
    "ufe5a", ")", "", "", "", "", "ufe5b", "{", "", "", "", "", "ufe5c", "}", "", "", "", "",
    "ufe5f", "#", "", "", "", "", "ufe60", "&", "", "", "", "", "ufe61", "*", "", "", "", "",
    "ufe62", "+", "", "", "", "", "ufe63", "-", "", "", "", "", "ufe64", "<", "", "", "", "",
    "ufe65", ">", "", "", "", "", "ufe66", "=", "", "", "", "", "ufe68", "\\", "", "", "", "",
    "ufe69", "$", "", "", "", "", "ufe6a", "%", "", "", "", "", "ufe6b", "@", "", "", "", "",
    "ufe70", " ", "", "", "", "", "ufe72", " ", "", "", "", "", "ufe74", " ", "", "", "", "",
    "ufe76", " ", "", "", "", "", "ufe78", " ", "", "", "", "", "ufe7a", " ", "", "", "", "",
    "ufe7c", " ", "", "", "", "", "ufe7e", " ", "", "", "", "", "uff01", "!", "", "", "", "",
    "uff02", "\"", "", "", "", "", "uff03", "#", "", "", "", "", "uff04", "$", "", "", "", "",
    "uff05", "%", "", "", "", "", "uff06", "&", "", "", "", "", "uff07", "'", "", "", "", "",
    "uff08", "(", "", "", "", "", "uff09", ")", "", "", "", "", "uff0a", "*", "", "", "", "",
    "uff0b", "+", "", "", "", "", "uff0c", ",", "", "", "", "", "uff0d", "-", "", "", "", "",
    "uff0e", ".", "", "", "", "", "uff0f", "/", "", "", "", "", "uff10", "0", "", "", "", "",
    "uff11", "1", "", "", "", "", "uff12", "2", "", "", "", "", "uff13", "3", "", "", "", "",
    "uff14", "4", "", "", "", "", "uff15", "5", "", "", "", "", "uff16", "6", "", "", "", "",
    "uff17", "7", "", "", "", "", "uff18", "8", "", "", "", "", "uff19", "9", "", "", "", "",
    "uff1a", ":", "", "", "", "", "uff1b", ";", "", "", "", "", "uff1c", "<", "", "", "", "",
    "uff1d", "=", "", "", "", "", "uff1e", ">", "", "", "", "", "uff1f", "?", "", "", "", "",
    "uff20", "@", "", "", "", "", "uff21", "A", "", "", "", "", "uff22", "B", "", "", "", "",
    "uff23", "C", "", "", "", "", "uff24", "D", "", "", "", "", "uff25", "E", "", "", "", "",
    "uff26", "F", "", "", "", "", "uff27", "G", "", "", "", "", "uff28", "H", "", "", "", "",
    "uff29", "I", "", "", "", "", "uff2a", "J", "", "", "", "", "uff2b", "K", "", "", "", "",
    "uff2c", "L", "", "", "", "", "uff2d", "M", "", "", "", "", "uff2e", "N", "", "", "", "",
    "uff2f", "O", "", "", "", "", "uff30", "P", "", "", "", "", "uff31", "Q", "", "", "", "",
    "uff32", "R", "", "", "", "", "uff33", "S", "", "", "", "", "uff34", "T", "", "", "", "",
    "uff35", "U", "", "", "", "", "uff36", "V", "", "", "", "", "uff37", "W", "", "", "", "",
    "uff38", "X", "", "", "", "", "uff39", "Y", "", "", "", "", "uff3a", "Z", "", "", "", "",
    "uff3b", "[", "", "", "", "", "uff3c", "\\", "", "", "", "", "uff3d", "]", "", "", "", "",
    "uff3e", "^", "", "", "", "", "uff3f", "_", "", "", "", "", "uff40", "u0060", "", "", "",
    "", "uff41", "a", "", "", "", "", "uff42", "b", "", "", "", "", "uff43", "c", "", "", "",
    "", "uff44", "d", "", "", "", "", "uff45", "e", "", "", "", "", "uff46", "f", "", "", "",
    "", "uff47", "g", "", "", "", "", "uff48", "h", "", "", "", "", "uff49", "i", "", "", "",
    "", "uff4a", "j", "", "", "", "", "uff4b", "k", "", "", "", "", "uff4c", "l", "", "", "",
    "", "uff4d", "m", "", "", "", "", "uff4e", "n", "", "", "", "", "uff4f", "o", "", "", "",
    "", "uff50", "p", "", "", "", "", "uff51", "q", "", "", "", "", "uff52", "r", "", "", "",
    "", "uff53", "s", "", "", "", "", "uff54", "t", "", "", "", "", "uff55", "u", "", "", "",
    "", "uff56", "v", "", "", "", "", "uff57", "w", "", "", "", "", "uff58", "x", "", "", "",
    "", "uff59", "y", "", "", "", "", "uff5a", "z", "", "", "", "", "uff5b", "{", "", "", "",
    "", "uff5c", "|", "", "", "", "", "uff5d", "}", "", "", "", "", "uff5e", "~", "", "", "",
    "", "uffe3", " ", "", "", "", "", "u107a5", "q", "", "", "", "", "u1d400", "A", "", "", "",
    "", "u1d401", "B", "", "", "", "", "u1d402", "C", "", "", "", "", "u1d403", "D", "", "", "",
    "", "u1d404", "E", "", "", "", "", "u1d405", "F", "", "", "", "", "u1d406", "G", "", "", "",
    "", "u1d407", "H", "", "", "", "", "u1d408", "I", "", "", "", "", "u1d409", "J", "", "", "",
    "", "u1d40a", "K", "", "", "", "", "u1d40b", "L", "", "", "", "", "u1d40c", "M", "", "", "",
    "", "u1d40d", "N", "", "", "", "", "u1d40e", "O", "", "", "", "", "u1d40f", "P", "", "", "",
    "", "u1d410", "Q", "", "", "", "", "u1d411", "R", "", "", "", "", "u1d412", "S", "", "", "",
    "", "u1d413", "T", "", "", "", "", "u1d414", "U", "", "", "", "", "u1d415", "V", "", "", "",
    "", "u1d416", "W", "", "", "", "", "u1d417", "X", "", "", "", "", "u1d418", "Y", "", "", "",
    "", "u1d419", "Z", "", "", "", "", "u1d41a", "a", "", "", "", "", "u1d41b", "b", "", "", "",
    "", "u1d41c", "c", "", "", "", "", "u1d41d", "d", "", "", "", "", "u1d41e", "e", "", "", "",
    "", "u1d41f", "f", "", "", "", "", "u1d420", "g", "", "", "", "", "u1d421", "h", "", "", "",
    "", "u1d422", "i", "", "", "", "", "u1d423", "j", "", "", "", "", "u1d424", "k", "", "", "",
    "", "u1d425", "l", "", "", "", "", "u1d426", "m", "", "", "", "", "u1d427", "n", "", "", "",
    "", "u1d428", "o", "", "", "", "", "u1d429", "p", "", "", "", "", "u1d42a", "q", "", "", "",
    "", "u1d42b", "r", "", "", "", "", "u1d42c", "s", "", "", "", "", "u1d42d", "t", "", "", "",
    "", "u1d42e", "u", "", "", "", "", "u1d42f", "v", "", "", "", "", "u1d430", "w", "", "", "",
    "", "u1d431", "x", "", "", "", "", "u1d432", "y", "", "", "", "", "u1d433", "z", "", "", "",
    "", "u1d434", "A", "", "", "", "", "u1d435", "B", "", "", "", "", "u1d436", "C", "", "", "",
    "", "u1d437", "D", "", "", "", "", "u1d438", "E", "", "", "", "", "u1d439", "F", "", "", "",
    "", "u1d43a", "G", "", "", "", "", "u1d43b", "H", "", "", "", "", "u1d43c", "I", "", "", "",
    "", "u1d43d", "J", "", "", "", "", "u1d43e", "K", "", "", "", "", "u1d43f", "L", "", "", "",
    "", "u1d440", "M", "", "", "", "", "u1d441", "N", "", "", "", "", "u1d442", "O", "", "", "",
    "", "u1d443", "P", "", "", "", "", "u1d444", "Q", "", "", "", "", "u1d445", "R", "", "", "",
    "", "u1d446", "S", "", "", "", "", "u1d447", "T", "", "", "", "", "u1d448", "U", "", "", "",
    "", "u1d449", "V", "", "", "", "", "u1d44a", "W", "", "", "", "", "u1d44b", "X", "", "", "",
    "", "u1d44c", "Y", "", "", "", "", "u1d44d", "Z", "", "", "", "", "u1d44e", "a", "", "", "",
    "", "u1d44f", "b", "", "", "", "", "u1d450", "c", "", "", "", "", "u1d451", "d", "", "", "",
    "", "u1d452", "e", "", "", "", "", "u1d453", "f", "", "", "", "", "u1d454", "g", "", "", "",
    "", "u1d456", "i", "", "", "", "", "u1d457", "j", "", "", "", "", "u1d458", "k", "", "", "",
    "", "u1d459", "l", "", "", "", "", "u1d45a", "m", "", "", "", "", "u1d45b", "n", "", "", "",
    "", "u1d45c", "o", "", "", "", "", "u1d45d", "p", "", "", "", "", "u1d45e", "q", "", "", "",
    "", "u1d45f", "r", "", "", "", "", "u1d460", "s", "", "", "", "", "u1d461", "t", "", "", "",
    "", "u1d462", "u", "", "", "", "", "u1d463", "v", "", "", "", "", "u1d464", "w", "", "", "",
    "", "u1d465", "x", "", "", "", "", "u1d466", "y", "", "", "", "", "u1d467", "z", "", "", "",
    "", "u1d468", "A", "", "", "", "", "u1d469", "B", "", "", "", "", "u1d46a", "C", "", "", "",
    "", "u1d46b", "D", "", "", "", "", "u1d46c", "E", "", "", "", "", "u1d46d", "F", "", "", "",
    "", "u1d46e", "G", "", "", "", "", "u1d46f", "H", "", "", "", "", "u1d470", "I", "", "", "",
    "", "u1d471", "J", "", "", "", "", "u1d472", "K", "", "", "", "", "u1d473", "L", "", "", "",
    "", "u1d474", "M", "", "", "", "", "u1d475", "N", "", "", "", "", "u1d476", "O", "", "", "",
    "", "u1d477", "P", "", "", "", "", "u1d478", "Q", "", "", "", "", "u1d479", "R", "", "", "",
    "", "u1d47a", "S", "", "", "", "", "u1d47b", "T", "", "", "", "", "u1d47c", "U", "", "", "",
    "", "u1d47d", "V", "", "", "", "", "u1d47e", "W", "", "", "", "", "u1d47f", "X", "", "", "",
    "", "u1d480", "Y", "", "", "", "", "u1d481", "Z", "", "", "", "", "u1d482", "a", "", "", "",
    "", "u1d483", "b", "", "", "", "", "u1d484", "c", "", "", "", "", "u1d485", "d", "", "", "",
    "", "u1d486", "e", "", "", "", "", "u1d487", "f", "", "", "", "", "u1d488", "g", "", "", "",
    "", "u1d489", "h", "", "", "", "", "u1d48a", "i", "", "", "", "", "u1d48b", "j", "", "", "",
    "", "u1d48c", "k", "", "", "", "", "u1d48d", "l", "", "", "", "", "u1d48e", "m", "", "", "",
    "", "u1d48f", "n", "", "", "", "", "u1d490", "o", "", "", "", "", "u1d491", "p", "", "", "",
    "", "u1d492", "q", "", "", "", "", "u1d493", "r", "", "", "", "", "u1d494", "s", "", "", "",
    "", "u1d495", "t", "", "", "", "", "u1d496", "u", "", "", "", "", "u1d497", "v", "", "", "",
    "", "u1d498", "w", "", "", "", "", "u1d499", "x", "", "", "", "", "u1d49a", "y", "", "", "",
    "", "u1d49b", "z", "", "", "", "", "u1d49c", "A", "", "", "", "", "u1d49e", "C", "", "", "",
    "", "u1d49f", "D", "", "", "", "", "u1d4a2", "G", "", "", "", "", "u1d4a5", "J", "", "", "",
    "", "u1d4a6", "K", "", "", "", "", "u1d4a9", "N", "", "", "", "", "u1d4aa", "O", "", "", "",
    "", "u1d4ab", "P", "", "", "", "", "u1d4ac", "Q", "", "", "", "", "u1d4ae", "S", "", "", "",
    "", "u1d4af", "T", "", "", "", "", "u1d4b0", "U", "", "", "", "", "u1d4b1", "V", "", "", "",
    "", "u1d4b2", "W", "", "", "", "", "u1d4b3", "X", "", "", "", "", "u1d4b4", "Y", "", "", "",
    "", "u1d4b5", "Z", "", "", "", "", "u1d4b6", "a", "", "", "", "", "u1d4b7", "b", "", "", "",
    "", "u1d4b8", "c", "", "", "", "", "u1d4b9", "d", "", "", "", "", "u1d4bb", "f", "", "", "",
    "", "u1d4bd", "h", "", "", "", "", "u1d4be", "i", "", "", "", "", "u1d4bf", "j", "", "", "",
    "", "u1d4c0", "k", "", "", "", "", "u1d4c1", "l", "", "", "", "", "u1d4c2", "m", "", "", "",
    "", "u1d4c3", "n", "", "", "", "", "u1d4c5", "p", "", "", "", "", "u1d4c6", "q", "", "", "",
    "", "u1d4c7", "r", "", "", "", "", "u1d4c8", "s", "", "", "", "", "u1d4c9", "t", "", "", "",
    "", "u1d4ca", "u", "", "", "", "", "u1d4cb", "v", "", "", "", "", "u1d4cc", "w", "", "", "",
    "", "u1d4cd", "x", "", "", "", "", "u1d4ce", "y", "", "", "", "", "u1d4cf", "z", "", "", "",
    "", "u1d4d0", "A", "", "", "", "", "u1d4d1", "B", "", "", "", "", "u1d4d2", "C", "", "", "",
    "", "u1d4d3", "D", "", "", "", "", "u1d4d4", "E", "", "", "", "", "u1d4d5", "F", "", "", "",
    "", "u1d4d6", "G", "", "", "", "", "u1d4d7", "H", "", "", "", "", "u1d4d8", "I", "", "", "",
    "", "u1d4d9", "J", "", "", "", "", "u1d4da", "K", "", "", "", "", "u1d4db", "L", "", "", "",
    "", "u1d4dc", "M", "", "", "", "", "u1d4dd", "N", "", "", "", "", "u1d4de", "O", "", "", "",
    "", "u1d4df", "P", "", "", "", "", "u1d4e0", "Q", "", "", "", "", "u1d4e1", "R", "", "", "",
    "", "u1d4e2", "S", "", "", "", "", "u1d4e3", "T", "", "", "", "", "u1d4e4", "U", "", "", "",
    "", "u1d4e5", "V", "", "", "", "", "u1d4e6", "W", "", "", "", "", "u1d4e7", "X", "", "", "",
    "", "u1d4e8", "Y", "", "", "", "", "u1d4e9", "Z", "", "", "", "", "u1d4ea", "a", "", "", "",
    "", "u1d4eb", "b", "", "", "", "", "u1d4ec", "c", "", "", "", "", "u1d4ed", "d", "", "", "",
    "", "u1d4ee", "e", "", "", "", "", "u1d4ef", "f", "", "", "", "", "u1d4f0", "g", "", "", "",
    "", "u1d4f1", "h", "", "", "", "", "u1d4f2", "i", "", "", "", "", "u1d4f3", "j", "", "", "",
    "", "u1d4f4", "k", "", "", "", "", "u1d4f5", "l", "", "", "", "", "u1d4f6", "m", "", "", "",
    "", "u1d4f7", "n", "", "", "", "", "u1d4f8", "o", "", "", "", "", "u1d4f9", "p", "", "", "",
    "", "u1d4fa", "q", "", "", "", "", "u1d4fb", "r", "", "", "", "", "u1d4fc", "s", "", "", "",
    "", "u1d4fd", "t", "", "", "", "", "u1d4fe", "u", "", "", "", "", "u1d4ff", "v", "", "", "",
    "", "u1d500", "w", "", "", "", "", "u1d501", "x", "", "", "", "", "u1d502", "y", "", "", "",
    "", "u1d503", "z", "", "", "", "", "u1d504", "A", "", "", "", "", "u1d505", "B", "", "", "",
    "", "u1d507", "D", "", "", "", "", "u1d508", "E", "", "", "", "", "u1d509", "F", "", "", "",
    "", "u1d50a", "G", "", "", "", "", "u1d50d", "J", "", "", "", "", "u1d50e", "K", "", "", "",
    "", "u1d50f", "L", "", "", "", "", "u1d510", "M", "", "", "", "", "u1d511", "N", "", "", "",
    "", "u1d512", "O", "", "", "", "", "u1d513", "P", "", "", "", "", "u1d514", "Q", "", "", "",
    "", "u1d516", "S", "", "", "", "", "u1d517", "T", "", "", "", "", "u1d518", "U", "", "", "",
    "", "u1d519", "V", "", "", "", "", "u1d51a", "W", "", "", "", "", "u1d51b", "X", "", "", "",
    "", "u1d51c", "Y", "", "", "", "", "u1d51e", "a", "", "", "", "", "u1d51f", "b", "", "", "",
    "", "u1d520", "c", "", "", "", "", "u1d521", "d", "", "", "", "", "u1d522", "e", "", "", "",
    "", "u1d523", "f", "", "", "", "", "u1d524", "g", "", "", "", "", "u1d525", "h", "", "", "",
    "", "u1d526", "i", "", "", "", "", "u1d527", "j", "", "", "", "", "u1d528", "k", "", "", "",
    "", "u1d529", "l", "", "", "", "", "u1d52a", "m", "", "", "", "", "u1d52b", "n", "", "", "",
    "", "u1d52c", "o", "", "", "", "", "u1d52d", "p", "", "", "", "", "u1d52e", "q", "", "", "",
    "", "u1d52f", "r", "", "", "", "", "u1d530", "s", "", "", "", "", "u1d531", "t", "", "", "",
    "", "u1d532", "u", "", "", "", "", "u1d533", "v", "", "", "", "", "u1d534", "w", "", "", "",
    "", "u1d535", "x", "", "", "", "", "u1d536", "y", "", "", "", "", "u1d537", "z", "", "", "",
    "", "u1d538", "A", "", "", "", "", "u1d539", "B", "", "", "", "", "u1d53b", "D", "", "", "",
    "", "u1d53c", "E", "", "", "", "", "u1d53d", "F", "", "", "", "", "u1d53e", "G", "", "", "",
    "", "u1d540", "I", "", "", "", "", "u1d541", "J", "", "", "", "", "u1d542", "K", "", "", "",
    "", "u1d543", "L", "", "", "", "", "u1d544", "M", "", "", "", "", "u1d546", "O", "", "", "",
    "", "u1d54a", "S", "", "", "", "", "u1d54b", "T", "", "", "", "", "u1d54c", "U", "", "", "",
    "", "u1d54d", "V", "", "", "", "", "u1d54e", "W", "", "", "", "", "u1d54f", "X", "", "", "",
    "", "u1d550", "Y", "", "", "", "", "u1d552", "a", "", "", "", "", "u1d553", "b", "", "", "",
    "", "u1d554", "c", "", "", "", "", "u1d555", "d", "", "", "", "", "u1d556", "e", "", "", "",
    "", "u1d557", "f", "", "", "", "", "u1d558", "g", "", "", "", "", "u1d559", "h", "", "", "",
    "", "u1d55a", "i", "", "", "", "", "u1d55b", "j", "", "", "", "", "u1d55c", "k", "", "", "",
    "", "u1d55d", "l", "", "", "", "", "u1d55e", "m", "", "", "", "", "u1d55f", "n", "", "", "",
    "", "u1d560", "o", "", "", "", "", "u1d561", "p", "", "", "", "", "u1d562", "q", "", "", "",
    "", "u1d563", "r", "", "", "", "", "u1d564", "s", "", "", "", "", "u1d565", "t", "", "", "",
    "", "u1d566", "u", "", "", "", "", "u1d567", "v", "", "", "", "", "u1d568", "w", "", "", "",
    "", "u1d569", "x", "", "", "", "", "u1d56a", "y", "", "", "", "", "u1d56b", "z", "", "", "",
    "", "u1d56c", "A", "", "", "", "", "u1d56d", "B", "", "", "", "", "u1d56e", "C", "", "", "",
    "", "u1d56f", "D", "", "", "", "", "u1d570", "E", "", "", "", "", "u1d571", "F", "", "", "",
    "", "u1d572", "G", "", "", "", "", "u1d573", "H", "", "", "", "", "u1d574", "I", "", "", "",
    "", "u1d575", "J", "", "", "", "", "u1d576", "K", "", "", "", "", "u1d577", "L", "", "", "",
    "", "u1d578", "M", "", "", "", "", "u1d579", "N", "", "", "", "", "u1d57a", "O", "", "", "",
    "", "u1d57b", "P", "", "", "", "", "u1d57c", "Q", "", "", "", "", "u1d57d", "R", "", "", "",
    "", "u1d57e", "S", "", "", "", "", "u1d57f", "T", "", "", "", "", "u1d580", "U", "", "", "",
    "", "u1d581", "V", "", "", "", "", "u1d582", "W", "", "", "", "", "u1d583", "X", "", "", "",
    "", "u1d584", "Y", "", "", "", "", "u1d585", "Z", "", "", "", "", "u1d586", "a", "", "", "",
    "", "u1d587", "b", "", "", "", "", "u1d588", "c", "", "", "", "", "u1d589", "d", "", "", "",
    "", "u1d58a", "e", "", "", "", "", "u1d58b", "f", "", "", "", "", "u1d58c", "g", "", "", "",
    "", "u1d58d", "h", "", "", "", "", "u1d58e", "i", "", "", "", "", "u1d58f", "j", "", "", "",
    "", "u1d590", "k", "", "", "", "", "u1d591", "l", "", "", "", "", "u1d592", "m", "", "", "",
    "", "u1d593", "n", "", "", "", "", "u1d594", "o", "", "", "", "", "u1d595", "p", "", "", "",
    "", "u1d596", "q", "", "", "", "", "u1d597", "r", "", "", "", "", "u1d598", "s", "", "", "",
    "", "u1d599", "t", "", "", "", "", "u1d59a", "u", "", "", "", "", "u1d59b", "v", "", "", "",
    "", "u1d59c", "w", "", "", "", "", "u1d59d", "x", "", "", "", "", "u1d59e", "y", "", "", "",
    "", "u1d59f", "z", "", "", "", "", "u1d5a0", "A", "", "", "", "", "u1d5a1", "B", "", "", "",
    "", "u1d5a2", "C", "", "", "", "", "u1d5a3", "D", "", "", "", "", "u1d5a4", "E", "", "", "",
    "", "u1d5a5", "F", "", "", "", "", "u1d5a6", "G", "", "", "", "", "u1d5a7", "H", "", "", "",
    "", "u1d5a8", "I", "", "", "", "", "u1d5a9", "J", "", "", "", "", "u1d5aa", "K", "", "", "",
    "", "u1d5ab", "L", "", "", "", "", "u1d5ac", "M", "", "", "", "", "u1d5ad", "N", "", "", "",
    "", "u1d5ae", "O", "", "", "", "", "u1d5af", "P", "", "", "", "", "u1d5b0", "Q", "", "", "",
    "", "u1d5b1", "R", "", "", "", "", "u1d5b2", "S", "", "", "", "", "u1d5b3", "T", "", "", "",
    "", "u1d5b4", "U", "", "", "", "", "u1d5b5", "V", "", "", "", "", "u1d5b6", "W", "", "", "",
    "", "u1d5b7", "X", "", "", "", "", "u1d5b8", "Y", "", "", "", "", "u1d5b9", "Z", "", "", "",
    "", "u1d5ba", "a", "", "", "", "", "u1d5bb", "b", "", "", "", "", "u1d5bc", "c", "", "", "",
    "", "u1d5bd", "d", "", "", "", "", "u1d5be", "e", "", "", "", "", "u1d5bf", "f", "", "", "",
    "", "u1d5c0", "g", "", "", "", "", "u1d5c1", "h", "", "", "", "", "u1d5c2", "i", "", "", "",
    "", "u1d5c3", "j", "", "", "", "", "u1d5c4", "k", "", "", "", "", "u1d5c5", "l", "", "", "",
    "", "u1d5c6", "m", "", "", "", "", "u1d5c7", "n", "", "", "", "", "u1d5c8", "o", "", "", "",
    "", "u1d5c9", "p", "", "", "", "", "u1d5ca", "q", "", "", "", "", "u1d5cb", "r", "", "", "",
    "", "u1d5cc", "s", "", "", "", "", "u1d5cd", "t", "", "", "", "", "u1d5ce", "u", "", "", "",
    "", "u1d5cf", "v", "", "", "", "", "u1d5d0", "w", "", "", "", "", "u1d5d1", "x", "", "", "",
    "", "u1d5d2", "y", "", "", "", "", "u1d5d3", "z", "", "", "", "", "u1d5d4", "A", "", "", "",
    "", "u1d5d5", "B", "", "", "", "", "u1d5d6", "C", "", "", "", "", "u1d5d7", "D", "", "", "",
    "", "u1d5d8", "E", "", "", "", "", "u1d5d9", "F", "", "", "", "", "u1d5da", "G", "", "", "",
    "", "u1d5db", "H", "", "", "", "", "u1d5dc", "I", "", "", "", "", "u1d5dd", "J", "", "", "",
    "", "u1d5de", "K", "", "", "", "", "u1d5df", "L", "", "", "", "", "u1d5e0", "M", "", "", "",
    "", "u1d5e1", "N", "", "", "", "", "u1d5e2", "O", "", "", "", "", "u1d5e3", "P", "", "", "",
    "", "u1d5e4", "Q", "", "", "", "", "u1d5e5", "R", "", "", "", "", "u1d5e6", "S", "", "", "",
    "", "u1d5e7", "T", "", "", "", "", "u1d5e8", "U", "", "", "", "", "u1d5e9", "V", "", "", "",
    "", "u1d5ea", "W", "", "", "", "", "u1d5eb", "X", "", "", "", "", "u1d5ec", "Y", "", "", "",
    "", "u1d5ed", "Z", "", "", "", "", "u1d5ee", "a", "", "", "", "", "u1d5ef", "b", "", "", "",
    "", "u1d5f0", "c", "", "", "", "", "u1d5f1", "d", "", "", "", "", "u1d5f2", "e", "", "", "",
    "", "u1d5f3", "f", "", "", "", "", "u1d5f4", "g", "", "", "", "", "u1d5f5", "h", "", "", "",
    "", "u1d5f6", "i", "", "", "", "", "u1d5f7", "j", "", "", "", "", "u1d5f8", "k", "", "", "",
    "", "u1d5f9", "l", "", "", "", "", "u1d5fa", "m", "", "", "", "", "u1d5fb", "n", "", "", "",
    "", "u1d5fc", "o", "", "", "", "", "u1d5fd", "p", "", "", "", "", "u1d5fe", "q", "", "", "",
    "", "u1d5ff", "r", "", "", "", "", "u1d600", "s", "", "", "", "", "u1d601", "t", "", "", "",
    "", "u1d602", "u", "", "", "", "", "u1d603", "v", "", "", "", "", "u1d604", "w", "", "", "",
    "", "u1d605", "x", "", "", "", "", "u1d606", "y", "", "", "", "", "u1d607", "z", "", "", "",
    "", "u1d608", "A", "", "", "", "", "u1d609", "B", "", "", "", "", "u1d60a", "C", "", "", "",
    "", "u1d60b", "D", "", "", "", "", "u1d60c", "E", "", "", "", "", "u1d60d", "F", "", "", "",
    "", "u1d60e", "G", "", "", "", "", "u1d60f", "H", "", "", "", "", "u1d610", "I", "", "", "",
    "", "u1d611", "J", "", "", "", "", "u1d612", "K", "", "", "", "", "u1d613", "L", "", "", "",
    "", "u1d614", "M", "", "", "", "", "u1d615", "N", "", "", "", "", "u1d616", "O", "", "", "",
    "", "u1d617", "P", "", "", "", "", "u1d618", "Q", "", "", "", "", "u1d619", "R", "", "", "",
    "", "u1d61a", "S", "", "", "", "", "u1d61b", "T", "", "", "", "", "u1d61c", "U", "", "", "",
    "", "u1d61d", "V", "", "", "", "", "u1d61e", "W", "", "", "", "", "u1d61f", "X", "", "", "",
    "", "u1d620", "Y", "", "", "", "", "u1d621", "Z", "", "", "", "", "u1d622", "a", "", "", "",
    "", "u1d623", "b", "", "", "", "", "u1d624", "c", "", "", "", "", "u1d625", "d", "", "", "",
    "", "u1d626", "e", "", "", "", "", "u1d627", "f", "", "", "", "", "u1d628", "g", "", "", "",
    "", "u1d629", "h", "", "", "", "", "u1d62a", "i", "", "", "", "", "u1d62b", "j", "", "", "",
    "", "u1d62c", "k", "", "", "", "", "u1d62d", "l", "", "", "", "", "u1d62e", "m", "", "", "",
    "", "u1d62f", "n", "", "", "", "", "u1d630", "o", "", "", "", "", "u1d631", "p", "", "", "",
    "", "u1d632", "q", "", "", "", "", "u1d633", "r", "", "", "", "", "u1d634", "s", "", "", "",
    "", "u1d635", "t", "", "", "", "", "u1d636", "u", "", "", "", "", "u1d637", "v", "", "", "",
    "", "u1d638", "w", "", "", "", "", "u1d639", "x", "", "", "", "", "u1d63a", "y", "", "", "",
    "", "u1d63b", "z", "", "", "", "", "u1d63c", "A", "", "", "", "", "u1d63d", "B", "", "", "",
    "", "u1d63e", "C", "", "", "", "", "u1d63f", "D", "", "", "", "", "u1d640", "E", "", "", "",
    "", "u1d641", "F", "", "", "", "", "u1d642", "G", "", "", "", "", "u1d643", "H", "", "", "",
    "", "u1d644", "I", "", "", "", "", "u1d645", "J", "", "", "", "", "u1d646", "K", "", "", "",
    "", "u1d647", "L", "", "", "", "", "u1d648", "M", "", "", "", "", "u1d649", "N", "", "", "",
    "", "u1d64a", "O", "", "", "", "", "u1d64b", "P", "", "", "", "", "u1d64c", "Q", "", "", "",
    "", "u1d64d", "R", "", "", "", "", "u1d64e", "S", "", "", "", "", "u1d64f", "T", "", "", "",
    "", "u1d650", "U", "", "", "", "", "u1d651", "V", "", "", "", "", "u1d652", "W", "", "", "",
    "", "u1d653", "X", "", "", "", "", "u1d654", "Y", "", "", "", "", "u1d655", "Z", "", "", "",
    "", "u1d656", "a", "", "", "", "", "u1d657", "b", "", "", "", "", "u1d658", "c", "", "", "",
    "", "u1d659", "d", "", "", "", "", "u1d65a", "e", "", "", "", "", "u1d65b", "f", "", "", "",
    "", "u1d65c", "g", "", "", "", "", "u1d65d", "h", "", "", "", "", "u1d65e", "i", "", "", "",
    "", "u1d65f", "j", "", "", "", "", "u1d660", "k", "", "", "", "", "u1d661", "l", "", "", "",
    "", "u1d662", "m", "", "", "", "", "u1d663", "n", "", "", "", "", "u1d664", "o", "", "", "",
    "", "u1d665", "p", "", "", "", "", "u1d666", "q", "", "", "", "", "u1d667", "r", "", "", "",
    "", "u1d668", "s", "", "", "", "", "u1d669", "t", "", "", "", "", "u1d66a", "u", "", "", "",
    "", "u1d66b", "v", "", "", "", "", "u1d66c", "w", "", "", "", "", "u1d66d", "x", "", "", "",
    "", "u1d66e", "y", "", "", "", "", "u1d66f", "z", "", "", "", "", "u1d670", "A", "", "", "",
    "", "u1d671", "B", "", "", "", "", "u1d672", "C", "", "", "", "", "u1d673", "D", "", "", "",
    "", "u1d674", "E", "", "", "", "", "u1d675", "F", "", "", "", "", "u1d676", "G", "", "", "",
    "", "u1d677", "H", "", "", "", "", "u1d678", "I", "", "", "", "", "u1d679", "J", "", "", "",
    "", "u1d67a", "K", "", "", "", "", "u1d67b", "L", "", "", "", "", "u1d67c", "M", "", "", "",
    "", "u1d67d", "N", "", "", "", "", "u1d67e", "O", "", "", "", "", "u1d67f", "P", "", "", "",
    "", "u1d680", "Q", "", "", "", "", "u1d681", "R", "", "", "", "", "u1d682", "S", "", "", "",
    "", "u1d683", "T", "", "", "", "", "u1d684", "U", "", "", "", "", "u1d685", "V", "", "", "",
    "", "u1d686", "W", "", "", "", "", "u1d687", "X", "", "", "", "", "u1d688", "Y", "", "", "",
    "", "u1d689", "Z", "", "", "", "", "u1d68a", "a", "", "", "", "", "u1d68b", "b", "", "", "",
    "", "u1d68c", "c", "", "", "", "", "u1d68d", "d", "", "", "", "", "u1d68e", "e", "", "", "",
    "", "u1d68f", "f", "", "", "", "", "u1d690", "g", "", "", "", "", "u1d691", "h", "", "", "",
    "", "u1d692", "i", "", "", "", "", "u1d693", "j", "", "", "", "", "u1d694", "k", "", "", "",
    "", "u1d695", "l", "", "", "", "", "u1d696", "m", "", "", "", "", "u1d697", "n", "", "", "",
    "", "u1d698", "o", "", "", "", "", "u1d699", "p", "", "", "", "", "u1d69a", "q", "", "", "",
    "", "u1d69b", "r", "", "", "", "", "u1d69c", "s", "", "", "", "", "u1d69d", "t", "", "", "",
    "", "u1d69e", "u", "", "", "", "", "u1d69f", "v", "", "", "", "", "u1d6a0", "w", "", "", "",
    "", "u1d6a1", "x", "", "", "", "", "u1d6a2", "y", "", "", "", "", "u1d6a3", "z", "", "", "",
    "", "u1d7ce", "0", "", "", "", "", "u1d7cf", "1", "", "", "", "", "u1d7d0", "2", "", "", "",
    "", "u1d7d1", "3", "", "", "", "", "u1d7d2", "4", "", "", "", "", "u1d7d3", "5", "", "", "",
    "", "u1d7d4", "6", "", "", "", "", "u1d7d5", "7", "", "", "", "", "u1d7d6", "8", "", "", "",
    "", "u1d7d7", "9", "", "", "", "", "u1d7d8", "0", "", "", "", "", "u1d7d9", "1", "", "", "",
    "", "u1d7da", "2", "", "", "", "", "u1d7db", "3", "", "", "", "", "u1d7dc", "4", "", "", "",
    "", "u1d7dd", "5", "", "", "", "", "u1d7de", "6", "", "", "", "", "u1d7df", "7", "", "", "",
    "", "u1d7e0", "8", "", "", "", "", "u1d7e1", "9", "", "", "", "", "u1d7e2", "0", "", "", "",
    "", "u1d7e3", "1", "", "", "", "", "u1d7e4", "2", "", "", "", "", "u1d7e5", "3", "", "", "",
    "", "u1d7e6", "4", "", "", "", "", "u1d7e7", "5", "", "", "", "", "u1d7e8", "6", "", "", "",
    "", "u1d7e9", "7", "", "", "", "", "u1d7ea", "8", "", "", "", "", "u1d7eb", "9", "", "", "",
    "", "u1d7ec", "0", "", "", "", "", "u1d7ed", "1", "", "", "", "", "u1d7ee", "2", "", "", "",
    "", "u1d7ef", "3", "", "", "", "", "u1d7f0", "4", "", "", "", "", "u1d7f1", "5", "", "", "",
    "", "u1d7f2", "6", "", "", "", "", "u1d7f3", "7", "", "", "", "", "u1d7f4", "8", "", "", "",
    "", "u1d7f5", "9", "", "", "", "", "u1d7f6", "0", "", "", "", "", "u1d7f7", "1", "", "", "",
    "", "u1d7f8", "2", "", "", "", "", "u1d7f9", "3", "", "", "", "", "u1d7fa", "4", "", "", "",
    "", "u1d7fb", "5", "", "", "", "", "u1d7fc", "6", "", "", "", "", "u1d7fd", "7", "", "", "",
    "", "u1d7fe", "8", "", "", "", "", "u1d7ff", "9", "", "", "", "", "u1f100", "0", ".", "",
    "", "", "u1f101", "0", ",", "", "", "", "u1f102", "1", ",", "", "", "", "u1f103", "2", ",",
    "", "", "", "u1f104", "3", ",", "", "", "", "u1f105", "4", ",", "", "", "", "u1f106", "5",
    ",", "", "", "", "u1f107", "6", ",", "", "", "", "u1f108", "7", ",", "", "", "", "u1f109",
    "8", ",", "", "", "", "u1f10a", "9", ",", "", "", "", "u1f110", "(", "A", ")", "", "",
    "u1f111", "(", "B", ")", "", "", "u1f112", "(", "C", ")", "", "", "u1f113", "(", "D", ")",
    "", "", "u1f114", "(", "E", ")", "", "", "u1f115", "(", "F", ")", "", "", "u1f116", "(",
    "G", ")", "", "", "u1f117", "(", "H", ")", "", "", "u1f118", "(", "I", ")", "", "",
    "u1f119", "(", "J", ")", "", "", "u1f11a", "(", "K", ")", "", "", "u1f11b", "(", "L", ")",
    "", "", "u1f11c", "(", "M", ")", "", "", "u1f11d", "(", "N", ")", "", "", "u1f11e", "(",
    "O", ")", "", "", "u1f11f", "(", "P", ")", "", "", "u1f120", "(", "Q", ")", "", "",
    "u1f121", "(", "R", ")", "", "", "u1f122", "(", "S", ")", "", "", "u1f123", "(", "T", ")",
    "", "", "u1f124", "(", "U", ")", "", "", "u1f125", "(", "V", ")", "", "", "u1f126", "(",
    "W", ")", "", "", "u1f127", "(", "X", ")", "", "", "u1f128", "(", "Y", ")", "", "",
    "u1f129", "(", "Z", ")", "", "", "u1f12a", "S", "", "", "", "", "u1f12b", "C", "", "", "",
    "", "u1f12c", "R", "", "", "", "", "u1f12d", "C", "D", "", "", "", "u1f12e", "W", "Z", "",
    "", "", "u1f130", "A", "", "", "", "", "u1f131", "B", "", "", "", "", "u1f132", "C", "", "",
    "", "", "u1f133", "D", "", "", "", "", "u1f134", "E", "", "", "", "", "u1f135", "F", "", "",
    "", "", "u1f136", "G", "", "", "", "", "u1f137", "H", "", "", "", "", "u1f138", "I", "", "",
    "", "", "u1f139", "J", "", "", "", "", "u1f13a", "K", "", "", "", "", "u1f13b", "L", "", "",
    "", "", "u1f13c", "M", "", "", "", "", "u1f13d", "N", "", "", "", "", "u1f13e", "O", "", "",
    "", "", "u1f13f", "P", "", "", "", "", "u1f140", "Q", "", "", "", "", "u1f141", "R", "", "",
    "", "", "u1f142", "S", "", "", "", "", "u1f143", "T", "", "", "", "", "u1f144", "U", "", "",
    "", "", "u1f145", "V", "", "", "", "", "u1f146", "W", "", "", "", "", "u1f147", "X", "", "",
    "", "", "u1f148", "Y", "", "", "", "", "u1f149", "Z", "", "", "", "", "u1f14a", "H", "V",
    "", "", "", "u1f14b", "M", "V", "", "", "", "u1f14c", "S", "D", "", "", "", "u1f14d", "S",
    "S", "", "", "", "u1f14e", "P", "P", "V", "", "", "u1f14f", "W", "C", "", "", "", "u1f16a",
    "M", "C", "", "", "", "u1f16b", "M", "D", "", "", "", "u1f16c", "M", "R", "", "", "",
    "u1f190", "D", "J", "", "", "", "u1fbf0", "0", "", "", "", "", "u1fbf1", "1", "", "", "",
    "", "u1fbf2", "2", "", "", "", "", "u1fbf3", "3", "", "", "", "", "u1fbf4", "4", "", "", "",
    "", "u1fbf5", "5", "", "", "", "", "u1fbf6", "6", "", "", "", "", "u1fbf7", "7", "", "", "",
    "", "u1fbf8", "8", "", "", "", "", "u1fbf9", "9", "", "", "", ""
>>
NfkdKeyAt == [k \in 1..(Len(NFKD_ASCII) \div 6) |-> NFKD_ASCII[6 * k - 5]]
NfkdRow(c) == 6 * ((CHOOSE k \in DOMAIN NfkdKeyAt : NfkdKeyAt[k] = c) - 1)
NfkdAscii ==
    [c \in {NfkdKeyAt[k] : k \in DOMAIN NfkdKeyAt} |->
        SelectSeq(SubSeq(NFKD_ASCII, NfkdRow(c) + 2, NfkdRow(c) + 6),
                  LAMBDA x : x # "")]

\* The ASCII characters a character leaves in the normalized file name
AsciiOf(c) ==
    IF IsAscii(c) THEN <<c>>
    ELSE IF c \in DOMAIN NfkdAscii THEN NfkdAscii[c]
    ELSE <<>>
NfkdToAscii(s) == Concat([i \in 1..Len(s) |-> AsciiOf(s[i])])

\* werkzeug's secure_filename: the name is decomposed (NFKD) and the
\* characters outside ASCII are dropped, a path separator is a space, the
\* words are joined by "_", the characters outside [A-Za-z0-9_.-] are
\* dropped, and "." and "_" are stripped from the ends
secure_filename(filename) ==
    StripChars(
        SelectSeq(
            JoinWords(StripChars(
                [i \in 1..Len(NfkdToAscii(filename)) |->
                    IF NfkdToAscii(filename)[i] = "/" THEN " "
                    ELSE NfkdToAscii(filename)[i]],
                ASCII_SPACE)),
            LAMBDA c : c \in AsciiKept),
        {".", "_"})

\* The name save_upload stores the file under, before the time stamp
StoredName(filename) ==
    IF Len(secure_filename(filename)) = 0 \/ LastDot(secure_filename(filename)) = 0
    THEN (IF LastDot(filename) > 0 /\ Len(ExtensionOf(filename)) > 0
          THEN <<"u", "p", "l", "o", "a", "d", ".">> \o ExtensionOf(filename)
          ELSE <<"u", "p", "l", "o", "a", "d">>)
    ELSE secure_filename(filename)

\* A file arrived with the request: `file and file.filename`
Sent(file) == file # None /\ Len(file.filename) > 0

\* save_upload(file, subfolder) in second t: the stored path, <<>> for None
save_upload(file, subfolder, t) ==
    IF Sent(file) /\ allowed_file(file.filename)
    THEN subfolder \o <<"/">> \o Timestamp(t) \o <<"_">> \o StoredName(file.filename)
    ELSE <<>>

\* The upload folder after file.save(filepath)
Saved(folder, file, path) ==
    IF Len(path) = 0 THEN folder
    ELSE {f \in folder : f.path # path} \cup {[path |-> path, content |-> file.content]}

\* The upload folder after os.remove(path), the OSError of a missing file
\* caught
Removed(folder, path) == {f \in folder : f.path # path}

\* A file is stored under the path
Stored(folder, path) == \E f \in folder : f.path = path
\* The content stored under a path
ContentAt(folder, path) == (CHOOSE f \in folder : f.path = path).content

\* os.path.splitext(path)[1].lower() of a stored path, without the dot
PathExtension(path) ==
    IF LastDot(path) = 0 THEN <<>> ELSE ExtensionOf(path)

\* The extension as the parsers name it
ExtName(ext) ==
    IF ext = <<"d", "o", "c", "x">> THEN "docx"
    ELSE IF ext = <<"p", "d", "f">> THEN "pdf"
    ELSE IF ext = <<"d", "o", "c">> THEN "doc"
    ELSE "other"

\* The file a parser finds under a stored path: the library of the
\* extension opens a content of its format, and no library opens a missing
\* file
FileAt(folder, path) ==
    IF Stored(folder, path)
    THEN File(ExtName(PathExtension(path)),
              ContentAt(folder, path).format = ExtName(PathExtension(path)),
              ContentAt(folder, path).body)
    ELSE File(ExtName(PathExtension(path)), FALSE, <<>>)

\* The file Document(filepath) finds under a stored path, whatever the
\* extension
DocxAt(folder, path) ==
    IF Stored(folder, path)
    THEN [opens |-> ContentAt(folder, path).format = "docx",
          body |-> ContentAt(folder, path).body]
    ELSE [opens |-> FALSE, body |-> <<>>]

\* The names of the uploads: two of no ASCII letter before the extension
NAME_A_DOCX == <<"a", ".", "d", "o", "c", "x">>
NAME_A_PDF == <<"a", ".", "p", "d", "f">>
NAME_A_DOC == <<"a", ".", "d", "o", "c">>
NAME_A_TXT == <<"a", ".", "t", "x", "t">>
NAME_FORMAT_DOCX == <<"u683c", "u5f0f", ".", "d", "o", "c", "x">>      \* 格式.docx
NAME_REQUIRE_DOCX == <<"u8981", "u6c42", ".", "d", "o", "c", "x">>     \* 要求.docx

\* The contents of the uploads: a format template with headings, a document
\* of one paragraph of body text with a line break (w:br) before a line that
\* reads as a heading, a tender file with a format chapter, a line break
\* after the number of the chapter, and an item, and one no library opens
DOCX_HEADINGS ==
    Content("docx", <<Para(TXT_MAJOR, STYLE_NORMAL), Para(TXT_SUB1, STYLE_NORMAL)>>)
DOCX_BODY == Content("docx", <<Para(TXT_BODY \o <<NEWLINE>> \o TXT_MAJOR, STYLE_NORMAL)>>)
DOCX_CHAPTER ==
    Content("docx", <<Para(LINE_FORMAT_BREAK, STYLE_NORMAL), Para(TXT_SUB1, STYLE_NORMAL)>>)
PDF_CHAPTER ==
    Content("pdf", <<Para(LINE_FORMAT, STYLE_NORMAL), Para(TXT_SUB1, STYLE_NORMAL)>>)
JUNK == Content("junk", <<>>)

(***************************************************************************)
(* app.py: the tables, the session and the requests                        *)
(*                                                                         *)
(* A table is the sequence of its rows in the order of their ids, and a    *)
(* new row gets the id after the greatest of its table, as SQLite gives    *)
(* it.  The rows of a person hold its certificates, those of a performance *)
(* its files, those of a project its sections and its links.  Of a row the *)
(* columns are modelled that the matcher, the parsers, the generators and  *)
(* the handlers read; an id of 0 is None, a number column that is None is  *)
(* 0, and a text column that is None is <<>>.  A date is the number of its *)
(* day, counted from the day of the clock.  No                             *)
(* foreign key is enforced: a row that is deleted leaves the ids that      *)
(* point at it.                                                            *)
(*                                                                         *)
(* The session is the cookie of the one client.  A request reads it when   *)
(* it arrives and the client takes the cookie of the response; a response  *)
(* that ends in an exception carries none.  A form holds, for a date or a  *)
(* number, the value its field parses to.                                  *)
(*                                                                         *)
(* A handler that commits more than once is a sequence of steps, one for   *)
(* each commit and one for the response, and the requests of the other     *)
(* handlers are served between its steps.  `request` is the request in     *)
(* flight; one such request is in flight at a time.                        *)
(***************************************************************************)
MaxRequests == 2    \* requests of the client once it is logged in

HasRow(rows, id) == \E k \in 1..Len(rows) : rows[k].id = id
RowOf(rows, id) == rows[CHOOSE k \in 1..Len(rows) : rows[k].id = id]
NextId(rows) == IF Len(rows) = 0 THEN 1 ELSE rows[Len(rows)].id + 1
WithoutRow(rows, id) == SelectSeq(rows, LAMBDA row : row.id # id)
WithRow(rows, row) == [k \in 1..Len(rows) |-> IF rows[k].id = row.id THEN row ELSE rows[k]]

\* Every row of the rows the rows of a table hold in `field`
Nested(rows, field) == Concat([k \in 1..Len(rows) |-> rows[k][field]])

\* The greatest id of a sequence of rows, 0 when it is empty
RECURSIVE MaxId(_)
MaxId(rows) == IF Len(rows) = 0 THEN 0 ELSE Max2(Head(rows).id, MaxId(Tail(rows)))

\* A row of bid_project
BidProject(id, project_name, industry_tags, format_file_path, requirements_file_path, tender_file_path, tender_requirements, tender_format, status) ==
    [id |-> id, project_name |-> project_name, bidder_name |-> <<>>, agent_name |-> <<>>,
     max_price |-> 0, service_period |-> <<>>, notes |-> <<>>, output_file_path |-> <<>>,
     industry_tags |-> industry_tags,
     format_file_path |-> format_file_path,
     requirements_file_path |-> requirements_file_path,
     tender_file_path |-> tender_file_path,
     tender_requirements |-> tender_requirements, tender_format |-> tender_format,
     status |-> status, sections |-> <<>>, bid_personnel |-> <<>>,
     bid_performances |-> <<>>]

\* A row of bid_section
BidSection(id, section_name, section_order, section_type, source, requirement_text, format_para_index) ==
    [id |-> id, section_name |-> section_name, section_order |-> section_order,
     section_type |-> section_type, source |-> source,
     requirement_text |-> requirement_text, format_para_index |-> format_para_index,
     attachment_id |-> 0, match_score |-> 0, custom_content |-> <<>>,
     status |-> "pending"]

\* The text of a form field that holds several lines, as the sequence of its
\* lines: request.form.get(name, '').strip()
StrippedLines(text) ==
    IF Len(Strip(text)) = 0 THEN <<>> ELSE SplitOn(Strip(text), NEWLINE)

SessionKeys == {"parsed_sections", "parsed_context", "parsed_message",
                "parsed_requirements", "section_requirements"}
LoginKeys == {"logged_in", "username"}

EmptySession == [keys |-> {}, parsed_sections |-> <<>>, parsed_context |-> <<>>,
                 parsed_message |-> <<>>, parsed_requirements |-> <<>>,
                 section_requirements |-> <<>>]

\* The cookie with the five keys of a parse assigned
ParsedSession(cookie, sections, context, message, requirements, dict) ==
    [keys |-> cookie.keys \cup SessionKeys, parsed_sections |-> sections,
     parsed_context |-> context, parsed_message |-> message,
     parsed_requirements |-> requirements, section_requirements |-> dict]

\* What a handler did: the parse results it obtained (None for a parser it
\* did not call), the format template it parsed, and how it ended: with a
\* redirect, with a page, with 404, or with an exception, which no handler
\* catches.  `cookie` is the session the response sets, None when the handler
\* left the session as it was; `sections` is the list a page shows; `flash`
\* holds the categories of the messages the handler flashed, in the order of
\* its calls of flash(); `file` is the path of the file it sends and
\* `download_name` the name it sends it under.
Response(handler, outcome, flash, fmt_result, req_result, result) ==
    [handler |-> handler, outcome |-> outcome, flash |-> flash,
     fmt_result |-> fmt_result, req_result |-> req_result, result |-> result,
     sections |-> <<>>, format_file |-> None, cookie |-> None,
     file |-> <<>>, download_name |-> <<>>]
Plain(handler, outcome, flash) == Response(handler, outcome, flash, None, None, None)

\* send_file(path, as_attachment=True, download_name=...)
SendFile(handler, flash, path, download_name) ==
    [Plain(handler, "send_file", flash) EXCEPT !.file = path,
                                               !.download_name = download_name]

LoggedIn == "logged_in" \in session.keys

\* A request of the client is served: it is logged in, and it has requests
\* left
Served == LoggedIn /\ budget > 0

(***************************************************************************)
(* The registries and the projects of the matcher                          *)
(***************************************************************************)
MaxAtts == 3                \* records of the attachment table
MaxPerfs == 2               \* records of the performance table
MaxProjectSections == 3     \* sections of a project
MaxCalls == 2               \* calls of bid_auto_match
MaxEdits == 1               \* requests of the client between the calls

LICENCE == <<"u8425", "u4e1a", "u6267", "u7167">>                  \* 营业执照
LICENCE_COPY == <<"u8425", "u4e1a", "u6267", "u7167", "u526f", "u672c">>   \* 营业执照副本
WATER == <<"u6c34", "u8d28">>                                       \* 水质

\* The stored path of an upload of the attachment folder, and of one of the
\* performance folder
STORED_FILE == save_upload(Upload(NAME_A_PDF, PDF_CHAPTER), FOLDER_ATTACHMENTS, 0)
STORED_PERFORMANCE == save_upload(Upload(NAME_A_PDF, PDF_CHAPTER), FOLDER_PERFORMANCE, 0)

\* n certificates without a file, and n files of a performance
Certificates(n) == [k \in 1..n |-> [file_path |-> <<>>]]
PerformanceFiles(n) == [k \in 1..n |-> [file_path |-> STORED_PERFORMANCE]]

\* A record of the attachment table
Attachment(name, category, file_path, expiry_date, tags) ==
    [name |-> name, category |-> category, file_path |-> file_path,
     expiry_date |-> expiry_date, tags |-> tags, notes |-> <<>>]

\* Records of the category of the probe, and records of another category
\* whose name or tags may hold the section type
AttachmentKinds ==
    {Attachment(<<"x">>, LICENCE, <<>>, None, <<>>),
     Attachment(<<"x">>, LICENCE, STORED_FILE, None, <<>>),
     Attachment(<<"x">>, LICENCE, STORED_FILE, [day |-> TODAY], <<>>),
     Attachment(<<"x">>, LICENCE, <<>>, [day |-> TODAY - 1], <<>>),
     Attachment(LICENCE_COPY, TYPE_OTHER, <<>>, [day |-> TODAY - 1], <<>>),
     Attachment(<<"x">>, TYPE_OTHER, <<>>, [day |-> TODAY - 1], <<"a", ",">> \o LICENCE),
     Attachment(<<"x">>, TYPE_OTHER, STORED_FILE, None, <<"a", ",">> \o LICENCE),
     Attachment(<<"x">>, TYPE_OTHER, STORED_FILE, None, <<>>)}

\* The rows of a table: the id of a row is its place
WithIds(rows) ==
    [k \in 1..Len(rows) |-> [x \in {"id"} \cup DOMAIN rows[k] |->
                                IF x = "id" THEN k ELSE rows[k][x]]]

\* The rows of a table with the rows each of them holds in `field`: the ids
\* of those run through the table
NestedIds(rows, field) ==
    [k \in 1..Len(rows) |->
        [rows[k] EXCEPT ![field] =
            [j \in 1..Len(@) |->
                [id |-> Len(Nested(SubSeq(rows, 1, k - 1), field)) + j,
                 file_path |-> @[j].file_path]]]]
PersonnelTable(rows) == NestedIds(WithIds(rows), "certificates")
PerformanceTable(rows) == NestedIds(WithIds(rows), "files")

AttachmentTables == {WithIds(rows) : rows \in SeqsUpTo(AttachmentKinds, MaxAtts)}

COMPANY == <<"A", "C", "M", "E">>
CLIENT == <<"u67d0", "u6c34", "u52a1", "u5c40">>                     \* 某水务局

\* Service starts at and around the two thresholds of the default, and between
\* the one-year margin and twice the years
PerformanceKinds ==
    {[project_name |-> <<"P", "1">>, client_name |-> CLIENT, description |-> <<>>,
      service_start |-> d, service_end |-> None, service_types |-> st,
      testing_params |-> <<" ", "P", "H", " ", ",">> \o WATER,
      contract_amount |-> a, files |-> PerformanceFiles(4)] :
        d \in {None} \cup {[day |-> TODAY - k] : k \in {1095, 1096, 1460, 1461, 1825}},
        st \in {<<>>, WATER}, a \in {0, 50}}

\* A table of more records than match_performance returns
ELEVEN_PERFORMANCES ==
    [k \in 1..11 |->
        [project_name |-> <<"P">> \o Digits(k), client_name |-> <<>>,
         description |-> <<>>,
         service_start |-> [day |-> TODAY - 150 * k], service_end |-> None,
         service_types |-> IF k % 2 = 0 THEN WATER ELSE <<>>, testing_params |-> <<>>,
         contract_amount |-> 10 * k, files |-> PerformanceFiles(k % 4)]]

PerformanceTables ==
    {PerformanceTable(rows) : rows \in SeqsUpTo(PerformanceKinds, MaxPerfs) \cup {ELEVEN_PERFORMANCES}}

ProjectTags == {<<>>, WATER \o <<",", " ", "p", "h">>}

NoRegistry == [attachments |-> <<>>, personnel |-> <<>>, performances |-> <<>>]

\* The registries of the projects
LEADER ==
    [name |-> <<"u5f20", "u4e09">>, gender |-> <<"u7537">>, phone |-> <<"1", "3", "8">>,
     social_security_unit |-> COMPANY,
     position |-> <<"u9879", "u76ee", "u7ecf", "u7406">>, title |-> <<"u9ad8", "u7ea7">>,
     skills |-> WATER, certificates |-> Certificates(1)]
TECH ==
    [name |-> <<"u674e", "u56db">>, gender |-> <<>>, phone |-> <<>>,
     social_security_unit |-> <<>>,
     position |-> <<"u6280", "u672f", "u603b", "u76d1">>, title |-> <<>>,
     skills |-> <<>>, certificates |-> Certificates(0)]
MEMBER ==
    [name |-> <<"u738b", "u4e94">>, gender |-> <<"u5973">>, phone |-> <<>>,
     social_security_unit |-> COMPANY,
     position |-> <<>>, title |-> <<"u5de5", "u7a0b", "u5e08">>, skills |-> <<>>,
     certificates |-> Certificates(5)]
RECENT ==
    [project_name |-> <<"P", "1">>, client_name |-> CLIENT,
     description |-> <<"u6c34", "u8d28", "u68c0", "u6d4b">>,
     service_start |-> [day |-> TODAY - 100], service_end |-> [day |-> TODAY - 10],
     service_types |-> WATER,
     testing_params |-> <<>>, contract_amount |-> 100, files |-> PerformanceFiles(1)]
OLD ==
    [project_name |-> <<"P", "2">>, client_name |-> <<>>, description |-> <<>>,
     service_start |-> None, service_end |-> None,
     service_types |-> <<>>, testing_params |-> <<>>,
     contract_amount |-> 0, files |-> PerformanceFiles(0)]
\* Persons at the edges of the score: both lead phrases in one position, the
\* senior and the middle title in one title, three tags in common, more than
\* four certificates
MaxPersons == 2
THREE_TAGS == <<"a", ",", " ", "B", ",", "c">>
\* Tags that differ from the skills of a person by the case of a letter
\* outside ASCII: 'é, a, σ' against 'É,x' and 'Σ'
ACCENT_TAGS == <<"u00e9", ",", " ", "a", ",", "u03c3">>
Person(position, title, skills, certificates) ==
    [name |-> <<"u738b", "u4e94">>, gender |-> <<>>, phone |-> <<>>,
     social_security_unit |-> <<>>,
     position |-> position, title |-> title, skills |-> skills,
     certificates |-> Certificates(certificates)]
PersonKinds ==
    {LEADER, TECH, MEMBER,
     Person(<<"u6280", "u672f", "u8d1f", "u8d23", "u4eba", "u517c", "u9879", "u76ee",
              "u8d1f", "u8d23", "u4eba">>, <<"u9ad8", "u7ea7", "u5de5", "u7a0b", "u5e08">>,
            <<"A", ",", "b", ",", "C">>, 5),
     Person(<<"u6280", "u672f", "u8d1f", "u8d23", "u4eba">>, <<"u4e2d", "u7ea7">>,
            <<"c", ",", "a">>, 2),
     Person(<<"u9879", "u76ee", "u8d1f", "u8d23", "u4eba">>, <<>>, <<"b">>, 0),
     Person(<<"u5de5", "u7a0b", "u5e08">>, <<"u6559", "u6388">>, <<"a", ",", "a">>, 4),
     Person(<<"u9879", "u76ee", "u7ecf", "u7406">>, <<"u9ad8", "u7ea7">>,
            <<"u00c9", ",", "x">>, 1),
     Person(<<>>, <<>>, <<>>, 0)}

\* Four leads of each role and eleven others, of scores not in order
FOUR_FOUR_ELEVEN ==
    [k \in 1..19 |->
        Person(IF k % 5 = 1 THEN <<"u9879", "u76ee", "u7ecf", "u7406">>
               ELSE IF k % 5 = 3 /\ k < 19 THEN <<"u6280", "u672f", "u603b", "u76d1">>
               ELSE <<>>,
               IF k % 3 = 0 THEN <<"u9ad8", "u7ea7">> ELSE <<>>,
               IF k % 4 = 0 THEN <<"u00c9", ",", "x">>
               ELSE IF k % 4 = 2 THEN <<"a">>
               ELSE IF k % 4 = 3 THEN <<"u03a3">>
               ELSE <<>>,
               k % 4)]

PersonnelTables ==
    {PersonnelTable(rows) : rows \in SeqsUpTo(PersonKinds, MaxPersons) \cup {FOUR_FOUR_ELEVEN}}

\* Records for a section with a requirement text: names with and without the
\* keywords of the text, in the category of the section and in another one
CMA_LOWER == <<"c", "m", "a">>
RescoreKinds ==
    {Attachment(<<"x">>, LICENCE, STORED_FILE, None, <<>>),
     Attachment(LICENCE_COPY, LICENCE, <<>>, None, <<>>),
     Attachment(LICENCE_COPY, LICENCE, STORED_FILE, [day |-> TODAY], <<>>),
     Attachment(LICENCE_COPY, TYPE_OTHER, <<>>, None, <<>>),
     Attachment(CMA_LOWER, LICENCE, <<>>, [day |-> TODAY - 1], <<>>),
     Attachment(LICENCE_COPY, TYPE_OTHER, STORED_FILE, None, LICENCE)}
SIX_RECORDS ==
    [k \in 1..6 |-> IF k = 3 THEN Attachment(LICENCE_COPY, LICENCE, <<>>, None, <<>>)
                    ELSE Attachment(<<"x">>, LICENCE, STORED_FILE, None, <<>>)]
\* Three expired records of the category before a record of another category
\* that pass 2 would score 80
THREE_EXPIRED ==
    [k \in 1..4 |-> IF k = 4 THEN Attachment(LICENCE_COPY, TYPE_OTHER, STORED_FILE, None, LICENCE)
                    ELSE Attachment(CMA_LOWER, LICENCE, <<>>, [day |-> TODAY - 1], <<>>)]
RescoreTables ==
    {WithIds(rows) : rows \in SeqsUpTo(RescoreKinds, MaxAtts) \cup {SIX_RECORDS, THREE_EXPIRED}}
\* 需有营业执照副本、营业执照及CMA
REQUIREMENT_TEXT ==
    <<"u9700", "u6709">> \o LICENCE_COPY \o <<"u3001">> \o LICENCE
    \o <<"u53ca", "C", "M", "A">>

LICENCE_RECORD == Attachment(LICENCE_COPY, LICENCE, STORED_FILE, [day |-> TODAY], <<>>)
PERSONNEL_RECORD == Attachment(<<"y">>, TYPE_PERSONNEL, <<>>, None, <<>>)
OTHER_RECORD == Attachment(<<"z">>, TYPE_OTHER, STORED_FILE, None, LICENCE)
Registries ==
    {[attachments |-> WithIds(a), personnel |-> PersonnelTable(r.personnel),
      performances |-> PerformanceTable(r.performances)] :
        a \in {<<>>, <<OTHER_RECORD, LICENCE_RECORD, PERSONNEL_RECORD>>},
        r \in {[personnel |-> <<>>, performances |-> <<>>],
               [personnel |-> <<MEMBER, LEADER, TECH, LEADER>>,
                performances |-> <<OLD, RECENT, RECENT, OLD>>]}}

\* The sections of a project: unbound, or bound by hand to record 9; one kind
\* has a requirement text
SECTION_NAME == <<"s">>
Unbound(t, text) == BidSection(0, SECTION_NAME, 0, t, "manual", text, None)
HandBound(t) == [Unbound(t, <<>>) EXCEPT !.attachment_id = 9]
SectionKinds ==
    {Unbound(t, <<>>) : t \in {TYPE_PERSONNEL, TYPE_PERFORMANCE, LICENCE, <<>>}}
    \cup {HandBound(LICENCE)}
    \cup {Unbound(LICENCE, <<"u9700", "u63d0", "u4f9b">> \o LICENCE_COPY)}

\* The links of a project before the first call: none, or one person and one
\* performance
LinksBefore ==
    {[bid_personnel |-> <<>>, bid_performances |-> <<>>],
     [bid_personnel |-> <<[personnel_id |-> 2, role |-> <<>>]>>,
      bid_performances |-> <<[performance_id |-> 2]>>]}

\* The project of id 1 with its sections in their order
PROJECT_NAME == <<"P", "/", "1">>
ProjectOf(sections, bid_personnel, bid_performances) ==
    [BidProject(1, PROJECT_NAME, WATER, <<>>, <<>>, <<>>, <<>>, <<>>, "in_progress") EXCEPT
        !.sections = [k \in 1..Len(sections) |->
                         [sections[k] EXCEPT !.id = k, !.section_order = k]],
        !.bid_personnel = bid_personnel,
        !.bid_performances = bid_performances]

Projects ==
    {ProjectOf(s, l.bid_personnel, l.bid_performances) :
        s \in SeqsUpTo(SectionKinds, MaxProjectSections), l \in LinksBefore}

\* Five unbound sections and one record of each of their categories: the
\* last section holds a text of two lines with a blank line between them,
\* the first record notes of two lines
FIVE_TYPES == <<LICENCE, TYPE_PERSONNEL, TYPE_PERFORMANCE, TYPE_TECH, TYPE_OTHER>>
FIVE_PROJECT ==
    ProjectOf([k \in 1..Len(FIVE_TYPES) |->
                  [Unbound(FIVE_TYPES[k], <<>>) EXCEPT
                      !.custom_content = IF k = Len(FIVE_TYPES) THEN CUSTOM_TEXT ELSE <<>>]],
              <<>>, <<>>)
FIVE_REGISTRY ==
    [attachments |->
        WithIds([k \in 1..Len(FIVE_TYPES) |->
                    [Attachment(<<"x">>, FIVE_TYPES[k], STORED_FILE, None, <<>>) EXCEPT
                        !.notes = IF k = 1 THEN <<"a", " ", NEWLINE, " ", NEWLINE, "b">>
                                  ELSE <<>>]]),
     personnel |-> PersonnelTable(<<LEADER, TECH>>),
     performances |-> PerformanceTable(<<RECENT>>)]

(***************************************************************************)
(* section_generators.py: the documents built from the tables              *)
(*                                                                         *)
(* A generated document is the sequence of the paragraphs and tables that  *)
(* were added to it: a paragraph holds the text of its run, a table its    *)
(* rows, a row the texts of its cells, a merged cell once for each column  *)
(* it spans.  The fonts, sizes, alignments and shadings of the helpers are *)
(* not modelled.  `bid` is the row of the project, `registry_rows` the     *)
(* tables of the registry the queries of the generators read.              *)
(***************************************************************************)
\* doc.add_paragraph(): an empty paragraph
add_paragraph == <<Para(<<>>, STYLE_NORMAL)>>

\* add_paragraph_with_style(doc, text, ...): one paragraph of one run
add_paragraph_with_style(text) == <<Para(text, STYLE_NORMAL)>>

add_title(text) == add_paragraph_with_style(text)
add_section_header(text) == add_paragraph_with_style(text)
add_sub_header(text) == add_paragraph_with_style(text)
add_body(text) == add_paragraph_with_style(text)
add_body_no_indent(text) == add_paragraph_with_style(text)

\* add_table_with_style(doc, rows, cols) once set_table_cell has written the
\* cells
add_table_with_style(rows) == <<TableOf(rows)>>

\* doc.add_page_break(): a paragraph whose run holds a page break
add_page_break ==
    <<[kind |-> "p", text |-> <<>>, style |-> STYLE_NORMAL, break |-> "page"]>>

\* _seal_and_date(doc, company_name)
seal_and_date(company_name) ==
    Concat(<<
        add_paragraph,
        add_paragraph,
        add_body_no_indent(<<"u6295", "u6807", "u4eba", "uff08", "u76d6", "u7ae0", "uff09",
                             "uff1a">> \o company_name),
        add_body_no_indent(<<"u6cd5", "u5b9a", "u4ee3", "u8868", "u4eba", "/", "u8d1f", "u8d23",
                             "u4eba", "u6216", "u5176", "u59d4", "u6258", "u4ee3", "u7406",
                             "u4eba", "uff08", "u7b7e", "u5b57", "u6216", "u76d6", "u7ae0",
                             "uff09", "uff1a">>),
        add_body_no_indent(<<"u65e5", "u671f", "uff1a", " ", " ", " ", " ", "u5e74", " ", " ",
                             " ", " ", "u6708", " ", " ", " ", " ", "u65e5">>)>>)

\* _safe(value): the value, the placeholder for an empty one
safe(value) == IF Len(value) = 0 THEN <<"[", "u5f85", "u586b", "u5199", "]">> ELSE value

\* The row a link of a project points at, None when the row is gone
LinkedRow(rows, id) == IF HasRow(rows, id) THEN RowOf(rows, id) ELSE None

\* _get_company_name(bid): the unit of the person of the first link of the
\* project, else the notes of the project
get_company_name(bid, registry_rows) ==
    IF /\ Len(bid.bid_personnel) > 0
       /\ LinkedRow(registry_rows.personnel, bid.bid_personnel[1].personnel_id) # None
       /\ Len(LinkedRow(registry_rows.personnel,
                        bid.bid_personnel[1].personnel_id).social_security_unit) > 0
    THEN LinkedRow(registry_rows.personnel,
                   bid.bid_personnel[1].personnel_id).social_security_unit
    ELSE IF Len(bid.notes) > 0 THEN bid.notes
    ELSE <<"[", "u6295", "u6807", "u5355", "u4f4d", "u540d", "u79f0", "u5f85", "u586b", "u5199",
           "]">>

\* The date of a day of the tables: day 0 is the day of the clock, and the
\* days of the civil calendar are counted from 0000-03-01
DayOfEra(z) == z % 146097
YearOfEra(doe) == (doe - doe \div 1460 + doe \div 36524 - doe \div 146096) \div 365
DayOfYear(doe) ==
    doe - (365 * YearOfEra(doe) + YearOfEra(doe) \div 4 - YearOfEra(doe) \div 100)
CivilDate(z) ==
    [year |-> YearOfEra(DayOfEra(z)) + (z \div 146097) * 400,
     doy |-> DayOfYear(DayOfEra(z))]
MonthOf(c) == IF (5 * c.doy + 2) \div 153 < 10 THEN (5 * c.doy + 2) \div 153 + 3
              ELSE (5 * c.doy + 2) \div 153 - 9
DateOfCivil(c) ==
    [year |-> IF MonthOf(c) <= 2 THEN c.year + 1 ELSE c.year,
     month |-> MonthOf(c),
     day |-> c.doy - (153 * ((5 * c.doy + 2) \div 153) + 2) \div 5 + 1]
DateOf(d) == IF d = None THEN None ELSE DateOfCivil(CivilDate(d.day + 20454 + 719468))

\* d.strftime('%Y年%m月')
strftime_Ym_cn(d) ==
    Digits(d.year) \o <<"u5e74">> \o (IF d.month < 10 THEN <<"0">> ELSE <<>>) \o Digits(d.month) \o <<"u6708">>

\* _format_service_time(perf)
format_service_time(perf) ==
    IF perf = None THEN <<"[", "u5f85", "u586b", "u5199", "]">>
    ELSE IF perf.service_start # None /\ perf.service_end # None
    THEN strftime_Ym_cn(DateOf(perf.service_start)) \o <<" ", "-", " ">>
         \o strftime_Ym_cn(DateOf(perf.service_end))
    ELSE IF perf.service_start # None THEN strftime_Ym_cn(DateOf(perf.service_start))
    ELSE IF perf.service_end # None THEN strftime_Ym_cn(DateOf(perf.service_end))
    ELSE <<"[", "u5f85", "u586b", "u5199", "]">>

\* _arabic_to_cn_year(year)
CN_DIGIT ==
    [d \in {"0", "1", "2", "3", "4", "5", "6", "7", "8", "9"} |->
        IF d = "0" THEN "u3007"
        ELSE IF d = "1" THEN "u4e00"
        ELSE IF d = "2" THEN "u4e8c"
        ELSE IF d = "3" THEN "u4e09"
        ELSE IF d = "4" THEN "u56db"
        ELSE IF d = "5" THEN "u4e94"
        ELSE IF d = "6" THEN "u516d"
        ELSE IF d = "7" THEN "u4e03"
        ELSE IF d = "8" THEN "u516b"
        ELSE IF d = "9" THEN "u4e5d"
        ELSE d]

arabic_to_cn_year(year) == [i \in 1..Len(Digits(year)) |-> CN_DIGIT[Digits(year)[i]]]

\* _arabic_to_cn_month(month)
arabic_to_cn_month(month) ==
    IF month = 1 THEN <<"u4e00">>
    ELSE IF month = 2 THEN <<"u4e8c">>
    ELSE IF month = 3 THEN <<"u4e09">>
    ELSE IF month = 4 THEN <<"u56db">>
    ELSE IF month = 5 THEN <<"u4e94">>
    ELSE IF month = 6 THEN <<"u516d">>
    ELSE IF month = 7 THEN <<"u4e03">>
    ELSE IF month = 8 THEN <<"u516b">>
    ELSE IF month = 9 THEN <<"u4e5d">>
    ELSE IF month = 10 THEN <<"u5341">>
    ELSE IF month = 11 THEN <<"u5341", "u4e00">>
    ELSE IF month = 12 THEN <<"u5341", "u4e8c">>
    ELSE Digits(month)

\* _cn_number(n)
cn_number(n) ==
    IF n = 1 THEN <<"u4e00">>
    ELSE IF n = 2 THEN <<"u4e8c">>
    ELSE IF n = 3 THEN <<"u4e09">>
    ELSE IF n = 4 THEN <<"u56db">>
    ELSE IF n = 5 THEN <<"u4e94">>
    ELSE IF n = 6 THEN <<"u516d">>
    ELSE IF n = 7 THEN <<"u4e03">>
    ELSE IF n = 8 THEN <<"u516b">>
    ELSE IF n = 9 THEN <<"u4e5d">>
    ELSE IF n = 10 THEN <<"u5341">>
    ELSE IF n = 11 THEN <<"u5341", "u4e00">>
    ELSE IF n = 12 THEN <<"u5341", "u4e8c">>
    ELSE IF n = 13 THEN <<"u5341", "u4e09">>
    ELSE IF n = 14 THEN <<"u5341", "u56db">>
    ELSE IF n = 15 THEN <<"u5341", "u4e94">>
    ELSE IF n = 16 THEN <<"u5341", "u516d">>
    ELSE IF n = 17 THEN <<"u5341", "u4e03">>
    ELSE IF n = 18 THEN <<"u5341", "u516b">>
    ELSE IF n = 19 THEN <<"u5341", "u4e5d">>
    ELSE IF n = 20 THEN <<"u4e8c", "u5341">>
    ELSE Digits(n)

\* section.attachment: the record the section is bound to, None when it is
\* bound to none or the record is gone
AttachmentOf(section, registry_rows) ==
    IF section.attachment_id = 0 THEN None
    ELSE LinkedRow(registry_rows.attachments, section.attachment_id)

\* The first person whose position holds one of the two words, 0 when there
\* is none: Personnel.query.filter(...).first()
LegalRep(personnel) ==
    FirstWhere(Len(personnel),
               LAMBDA k : \/ Contains(personnel[k].position, <<"u8d1f", "u8d23", "u4eba">>)
                          \/ Contains(personnel[k].position, <<"u6cd5", "u5b9a", "u4ee3",
                                                               "u8868", "u4eba">>))
RepName(personnel) ==
    IF LegalRep(personnel) = 0 THEN <<"[", "u5f85", "u586b", "u5199",
                                      "]">> ELSE personnel[LegalRep(personnel)].name
RepGender(personnel) ==
    IF LegalRep(personnel) = 0 \/ Len(personnel[LegalRep(personnel)].gender) = 0 THEN <<"[", "u5f85", "u586b", "u5199", "]">>
    ELSE personnel[LegalRep(personnel)].gender
RepPosition(personnel, default) ==
    IF LegalRep(personnel) = 0 \/ Len(personnel[LegalRep(personnel)].position) = 0
    THEN default
    ELSE personnel[LegalRep(personnel)].position

\* The first link of the project whose role holds one of the two words, 0
\* when there is none: BidPersonnel.query.filter(...).first()
Delegate(bid) ==
    FirstWhere(Len(bid.bid_personnel),
               LAMBDA k : \/ Contains(bid.bid_personnel[k].role,
                                      <<"u59d4", "u6258", "u4ee3", "u7406", "u4eba">>)
                          \/ Contains(bid.bid_personnel[k].role,
                                      <<"u6295", "u6807", "u4ee3", "u7406", "u4eba">>))
DelegatePerson(bid, registry_rows) ==
    IF Delegate(bid) = 0 THEN None
    ELSE LinkedRow(registry_rows.personnel, bid.bid_personnel[Delegate(bid)].personnel_id)
DelegateName(bid, registry_rows) ==
    IF DelegatePerson(bid, registry_rows) = None THEN <<"[", "u5f85", "u586b", "u5199", "]">>
    ELSE DelegatePerson(bid, registry_rows).name
DelegateGender(bid, registry_rows) ==
    IF DelegatePerson(bid, registry_rows) = None THEN <<"[", "u5f85", "u586b", "u5199", "]">>
    ELSE IF Len(DelegatePerson(bid, registry_rows).gender) = 0 THEN <<"[", "u5f85", "u586b", "u5199", "]">>
    ELSE DelegatePerson(bid, registry_rows).gender

\* The lines of the notes of a record, each stripped, the empty ones left
\* out
NotesLines(notes) ==
    Concat([i \in 1..Len(NonEmptyLines(SplitOn(notes, NEWLINE))) |->
               add_body(NonEmptyLines(SplitOn(notes, NEWLINE))[i])])
NotesOf(attachment) ==
    IF Len(attachment.notes) = 0 THEN <<>>
    ELSE add_paragraph \o NotesLines(attachment.notes)

\* The lines of a custom content, each stripped, an empty paragraph for an
\* empty one
CustomLines(text) ==
    Concat([i \in 1..Len(SplitOn(text, NEWLINE)) |->
               IF Len(Strip(SplitOn(text, NEWLINE)[i])) = 0 THEN add_paragraph
               ELSE add_body(Strip(SplitOn(text, NEWLINE)[i]))])

\* _gen_bid_letter(doc, section, bid, app_config)
gen_bid_letter(section, bid, registry_rows) ==
    Concat(<<
        add_title(<<"u6295", " ", " ", "u6807", " ", " ", "u51fd">>),
        add_paragraph,
        add_body(<<"u81f4", "uff1a">> \o safe(bid.bidder_name)),
        add_body(<<"uff08", "u62db", "u6807", "u4ee3", "u7406", "u673a", "u6784", "uff1a">>
                 \o safe(bid.agent_name) \o <<"uff09">>),
        add_paragraph,
        add_body(<<"u6839", "u636e", "u8d35", "u65b9", "u4e3a">> \o safe(bid.project_name)
                 \o <<"u7684", "u62db", "u6807", "u6587", "u4ef6", "uff08", "u62db", "u6807",
                      "u7f16", "u53f7", "uff1a", " ", " ", " ", " ", " ", " ", " ", " ", " ",
                      " ", " ", " ", "uff09", "uff0c", "u7b7e", "u5b57", "u4ee3", "u8868", " ",
                      " ", " ", " ", " ", " ", " ", " ", " ", " ", " ", " ", " ", " ", " ", " ",
                      "u7ecf", "u6b63", "u5f0f", "u6388", "u6743", "u5e76", "u4ee3", "u8868",
                      "u6295", "u6807", "u4eba">> \o get_company_name(bid, registry_rows)
                 \o <<"uff08", "u4ee5", "u4e0b", "u7b80", "u79f0", "\"", "u6295", "u6807",
                      "u4eba", "\"", "uff09", "uff0c", "u63d0", "u4ea4", "u4e0b", "u8ff0",
                      "u6587", "u4ef6", "u6b63", "u672c", "u4e00", "u4efd", "uff0c", "u526f",
                      "u672c", " ", " ", " ", " ", "u4efd", "u3002">>),
        add_body(<<"u4e00", "u3001", "u6211", "u65b9", "u5df2", "u8be6", "u7ec6", "u5ba1",
                   "u67e5", "u4e86", "u62db", "u6807", "u6587", "u4ef6", "u7684", "u5168",
                   "u90e8", "u5185", "u5bb9", "uff08", "u5305", "u62ec", "u4fee", "u6539",
                   "u6587", "u4ef6", "u4ee5", "u53ca", "u6709", "u5173", "u9644", "u4ef6",
                   "u548c", "u53c2", "u8003", "u8d44", "u6599", "uff09", "uff0c", "u6211",
                   "u65b9", "u5b8c", "u5168", "u7406", "u89e3", "u5e76", "u63a5", "u53d7",
                   "u62db", "u6807", "u6587", "u4ef6", "u7684", "u5404", "u9879", "u6761",
                   "u6b3e", "u548c", "u6761", "u4ef6", "uff0c", "u540c", "u610f", "u653e",
                   "u5f03", "u5bf9", "u8fd9", "u65b9", "u9762", "u6709", "u4e0d", "u660e",
                   "u53ca", "u8bef", "u89e3", "u7684", "u4e00", "u5207", "u6743", "u529b",
                   "u3002">>),
        add_body(<<"u4e8c", "u3001", "u6295", "u6807", "u6709", "u6548", "u671f", "u4e3a",
                   "u81ea", "u6295", "u6807", "u622a", "u6b62", "u65e5", "u671f", "u8d77", "9",
                   "0", "u4e2a", "u65e5", "u5386", "u5929", "u3002", "u5728", "u6b64", "u671f",
                   "u95f4", "u5185", "u672c", "u6295", "u6807", "u51fd", "u4ee5", "u53ca",
                   "u8d35", "u65b9", "u4e66", "u9762", "u63a5", "u53d7", "u7684", "u4e2d",
                   "u6807", "u901a", "u77e5", "u4e66", "u59cb", "u7ec8", "u5bf9", "u6211",
                   "u65b9", "u5177", "u6709", "u7ea6", "u675f", "u529b", "u3002">>),
        add_body(<<"u4e09", "u3001", "u6211", "u65b9", "u627f", "u8bfa", "u6309", "u7167",
                   "u62db", "u6807", "u6587", "u4ef6", "u89c4", "u5b9a", "u53ca", "u5408",
                   "u540c", "u7ea6", "u5b9a", "uff0c", "u4e3a", "u672c", "u9879", "u76ee",
                   "u63d0", "u4f9b", "u68c0", "u6d4b", "u670d", "u52a1", "u3002">>),
        add_body(<<"u56db", "u3001", "u6211", "u65b9", "u627f", "u8bfa", "u6295", "u6807",
                   "u62a5", "u4ef7", "u4e3a", "uff1a">>),
        add_body(<<"u603b", "u62a5", "u4ef7", "uff08", "u5927", "u5199", "uff09", "uff1a", "[",
                   "u5f85", "u586b", "u5199", "]", " ", " ", " ", " ", "uff08", "u5c0f", "u5199",
                    "uff09", "uff1a", "[", "u5f85", "u586b", "u5199", "]", "u5143", "u3002">>),
        add_body(<<"u4ee5", "u4e0a", "u62a5", "u4ef7", "u4e3a", "u542b", "u7a0e", "u5168",
                   "u8d39", "u7528", "u62a5", "u4ef7", "uff0c", "u5305", "u542b", "u68c0",
                   "u6d4b", "u6240", "u9700", "u7684", "u4eba", "u5de5", "u8d39", "u3001",
                   "u8bbe", "u5907", "u8d39", "u3001", "u6750", "u6599", "u8d39", "u3001",
                   "u4ea4", "u901a", "u8d39", "u3001", "u7ba1", "u7406", "u8d39", "u3001",
                   "u7a0e", "u91d1", "u3001", "u5229", "u6da6", "u7b49", "u4e00", "u5207",
                   "u8d39", "u7528", "u3002">>),
        add_body(<<"u4e94", "u3001", "u5982", "u679c", "u6211", "u65b9", "u7684", "u6295",
                   "u6807", "u88ab", "u63a5", "u53d7", "uff0c", "u6211", "u65b9", "u627f",
                   "u8bfa", "uff1a">>),
        add_body(<<"1", ".", " ", "u5728", "u6536", "u5230", "u4e2d", "u6807", "u901a", "u77e5",
                   "u4e66", "u540e", "uff0c", "u6309", "u7167", "u62db", "u6807", "u6587",
                   "u4ef6", "u89c4", "u5b9a", "u7684", "u65f6", "u95f4", "u4e0e", "u62db",
                   "u6807", "u4eba", "u7b7e", "u8ba2", "u5408", "u540c", "uff1b">>),
        add_body(<<"2", ".", " ", "u6309", "u7167", "u6295", "u6807", "u6587", "u4ef6", "u53ca",
                   "u5408", "u540c", "u7ea6", "u5b9a", "u8ba4", "u771f", "u5c65", "u884c",
                   "u5408", "u540c", "u4e49", "u52a1", "uff1b">>),
        add_body(<<"3", ".", " ", "u6309", "u7167", "u56fd", "u5bb6", "u6709", "u5173", "u6807",
                   "u51c6", "u548c", "u884c", "u4e1a", "u89c4", "u8303", "u5f00", "u5c55",
                   "u68c0", "u6d4b", "u5de5", "u4f5c", "uff1b">>),
        add_body(<<"4", ".", " ", "u4e25", "u683c", "u9075", "u5b88", "u4fdd", "u5bc6", "u4e49",
                   "u52a1", "uff0c", "u672a", "u7ecf", "u62db", "u6807", "u4eba", "u8bb8",
                   "u53ef", "u4e0d", "u5bf9", "u5916", "u6cc4", "u9732", "u68c0", "u6d4b",
                   "u6570", "u636e", "u3002">>),
        add_body(<<"u516d", "u3001", "u6211", "u65b9", "u5728", "u6b64", "u58f0", "u660e",
                   "uff0c", "u6240", "u9012", "u4ea4", "u7684", "u6295", "u6807", "u6587",
                   "u4ef6", "u53ca", "u6709", "u5173", "u8d44", "u6599", "u5185", "u5bb9",
                   "u5b8c", "u6574", "u3001", "u771f", "u5b9e", "u548c", "u51c6", "u786e",
                   "u3002">>),
        add_body(<<"u4e03", "u3001", "u4e0e", "u672c", "u6295", "u6807", "u6709", "u5173",
                   "u7684", "u4e00", "u5207", "u6b63", "u5f0f", "u5f80", "u6765", "u901a",
                   "u8baf", "u8bf7", "u5bc4", "uff1a">>),
        add_body(<<"u5730", " ", " ", " ", " ", "u5740", "uff1a", "[", "u5f85", "u586b", "u5199",
                    "]">>),
        add_body(<<"u7535", " ", " ", " ", " ", "u8bdd", "uff1a", "[", "u5f85", "u586b", "u5199",
                    "]">>),
        add_body(<<"u4f20", " ", " ", " ", " ", "u771f", "uff1a", "[", "u5f85", "u586b", "u5199",
                    "]">>),
        add_body(<<"u90ae", " ", " ", " ", " ", "u7f16", "uff1a", "[", "u5f85", "u586b", "u5199",
                    "]">>),
        seal_and_date(get_company_name(bid, registry_rows))>>)

\* _gen_pricing_table(doc, section, bid, app_config)
gen_pricing_table(section, bid, registry_rows) ==
    Concat(<<
        add_title(<<"u5206", "u9879", "u62a5", "u4ef7", "u8868">>),
        add_paragraph,
        add_body(<<"u9879", "u76ee", "u540d", "u79f0", "uff1a">> \o safe(bid.project_name)),
        add_paragraph,
        add_table_with_style(<<<<<<"u5e8f", "u53f7">>, <<"u68c0", "u6d4b", "u5bf9", "u8c61", "/",
                                                          "u670d", "u52a1", "u5185", "u5bb9">>,
                                 <<"u6570", "u91cf">>, <<"u5355", "u4ef7">>,
                                 <<"u5408", "u8ba1">>>>,
                               <<<<"1">>, <<"[", "u5f85", "u586b", "u5199", "]">>,
                                 <<"[", "u5f85", "u586b", "u5199", "]">>,
                                 <<"[", "u5f85", "u586b", "u5199", "]">>,
                                 <<"[", "u5f85", "u586b", "u5199", "]">>>>,
                               <<<<"u5408", " ", " ", " ", " ", "u8ba1">>,
                                 <<"u5408", " ", " ", " ", " ", "u8ba1">>,
                                 <<"u5408", " ", " ", " ", " ", "u8ba1">>,
                                 <<"u5408", " ", " ", " ", " ", "u8ba1">>,
                                 <<"[", "u5f85", "u586b", "u5199", "]">>>>>>),
        add_paragraph,
        add_body(<<"u6ce8", "uff1a", "u4ee5", "u4e0a", "u62a5", "u4ef7", "u4e3a", "u542b",
                   "u7a0e", "u5168", "u8d39", "u7528", "u5355", "u4ef7", "uff0c", "u5305",
                   "u542b", "u5b8c", "u6210", "u672c", "u9879", "u76ee", "u5de5", "u4f5c",
                   "u6240", "u9700", "u7684", "u6240", "u6709", "u8d39", "u7528", "u3002">>),
        seal_and_date(get_company_name(bid, registry_rows))>>)

\* _gen_legal_rep_cert(doc, section, bid, app_config)
gen_legal_rep_cert(section, bid, registry_rows) ==
    Concat(<<
        add_title(<<"u6cd5", "u5b9a", "u4ee3", "u8868", "u4eba", "uff08", "u8d1f", "u8d23",
                    "u4eba", "uff09", "u8eab", "u4efd", "u8bc1", "u660e">>),
        add_paragraph,
        add_body(<<"u5355", "u4f4d", "u540d", "u79f0", "uff1a">>
                 \o get_company_name(bid, registry_rows)),
        add_body(<<"u5355", "u4f4d", "u6027", "u8d28", "uff1a", "[", "u5f85", "u586b", "u5199",
                   "]">>),
        add_body(<<"u5730", " ", " ", " ", " ", "u5740", "uff1a", "[", "u5f85", "u586b", "u5199",
                    "]">>),
        add_body(<<"u6210", "u7acb", "u65f6", "u95f4", "uff1a", "[", "u5f85", "u586b", "u5199",
                   "]">>),
        add_body(<<"u7ecf", "u8425", "u671f", "u9650", "uff1a", "[", "u5f85", "u586b", "u5199",
                   "]">>),
        add_body(<<"u59d3", " ", " ", " ", " ", "u540d", "uff1a">>
                 \o RepName(registry_rows.personnel)),
        add_body(<<"u6027", " ", " ", " ", " ", "u522b", "uff1a">>
                 \o RepGender(registry_rows.personnel)),
        add_body(<<"u5e74", " ", " ", " ", " ", "u9f84", "uff1a", "[", "u5f85", "u586b", "u5199",
                    "]">>),
        add_body(<<"u804c", " ", " ", " ", " ", "u52a1", "uff1a">>
                 \o RepPosition(registry_rows.personnel, <<"u4e3b", "u8981", "u8d1f", "u8d23",
                                                           "u4eba">>)),
        add_body(<<"u7edf", "u4e00", "u793e", "u4f1a", "u4fe1", "u7528", "u4ee3", "u7801",
                   "uff1a", "[", "u5f85", "u586b", "u5199", "]">>),
        add_paragraph,
        add_body(<<"u5179", "u8bc1", "u660e", " ", " ", " ", " ">>
                 \o RepName(registry_rows.personnel) \o <<" ", " ", " ", " ", "u540c", "u5fd7",
                                                          "uff0c", "u5728", "u6211", "u5355",
                                                          "u4f4d", "u62c5", "u4efb", " ", " ",
                                                          " ", " ">>
                 \o RepPosition(registry_rows.personnel, <<"u4e3b", "u8981", "u8d1f", "u8d23",
                                                           "u4eba">>)
                 \o <<" ", " ", " ", " ", "u804c", "u52a1", "uff0c", "u7cfb", "u6211", "u5355",
                      "u4f4d", "u6cd5", "u5b9a", "u4ee3", "u8868", "u4eba", "uff08", "u8d1f",
                      "u8d23", "u4eba", "uff09", "u3002">>),
        add_paragraph,
        add_body(<<"u7279", "u6b64", "u8bc1", "u660e", "u3002">>),
        add_paragraph,
        add_paragraph,
        add_body_no_indent(<<"u6295", "u6807", "u4eba", "uff08", "u76d6", "u7ae0", "uff09",
                             "uff1a">> \o get_company_name(bid, registry_rows)),
        add_body_no_indent(<<"u65e5", "u671f", "uff1a", " ", " ", " ", " ", "u5e74", " ", " ",
                             " ", " ", "u6708", " ", " ", " ", " ", "u65e5">>)>>)

\* _gen_power_of_attorney(doc, section, bid, app_config)
gen_power_of_attorney(section, bid, registry_rows) ==
    Concat(<<
        add_title(<<"u6388", " ", " ", "u6743", " ", " ", "u59d4", " ", " ", "u6258", " ", " ",
                    "u4e66">>),
        add_paragraph,
        add_body(<<"u672c", "u6388", "u6743", "u59d4", "u6258", "u4e66", "u58f0", "u660e",
                   "uff1a">>),
        add_body(<<"u6ce8", "u518c", "u4e8e", "[", "u5f85", "u586b", "u5199", "]", "u7684">>
                 \o get_company_name(bid, registry_rows) \o <<"u7684">>
                 \o RepPosition(registry_rows.personnel, <<"u8d1f", "u8d23", "u4eba">>)
                 \o RepName(registry_rows.personnel) \o <<"uff0c", "u6388", "u6743", "u59d4",
                                                          "u6258", "u672c", "u5355", "u4f4d",
                                                          "u7684">>
                 \o DelegateName(bid, registry_rows) \o <<"u4e3a", "u6211", "u65b9", "u53c2",
                                                          "u52a0">> \o safe(bid.project_name)
                 \o <<"u7684", "u6295", "u6807", "u4ee3", "u7406", "u4eba", "uff0c", "u4ee5",
                      "u672c", "u5355", "u4f4d", "u540d", "u4e49", "u5904", "u7406", "u4e00",
                      "u5207", "u4e0e", "u672c", "u6b21", "u6295", "u6807", "u6709", "u5173",
                      "u7684", "u4e8b", "u5b9c", "u3002">>),
        add_paragraph,
        add_body(<<"u59d4", "u6258", "u671f", "u9650", "uff1a", "u81ea", "u672c", "u6388",
                   "u6743", "u59d4", "u6258", "u4e66", "u7b7e", "u7f72", "u4e4b", "u65e5",
                   "u8d77", "u81f3", "u672c", "u9879", "u76ee", "u62db", "u6807", "u6d3b",
                   "u52a8", "u7ed3", "u675f", "u6b62", "u3002">>),
        add_paragraph,
        add_body(<<"u9644", "uff1a", "u59d4", "u6258", "u4ee3", "u7406", "u4eba", "u60c5",
                   "u51b5">>),
        add_table_with_style(<<<<<<"u59d3", "u540d">>, DelegateName(bid, registry_rows),
                                 <<"u6027", "u522b">>, DelegateGender(bid, registry_rows)>>,
                               <<<<"u8eab", "u4efd", "u8bc1", "u53f7", "u7801">>,
                                 <<"[", "u5f85", "u586b", "u5199", "]">>, <<"u804c", "u52a1">>,
                                 <<"[", "u5f85", "u586b", "u5199", "]">>>>,
                               <<<<"u8054", "u7cfb", "u7535", "u8bdd">>,
                                 <<"[", "u5f85", "u586b", "u5199", "]">>, <<"u624b", "u673a">>,
                                 <<"[", "u5f85", "u586b", "u5199", "]">>>>,
                               <<<<"u4f20", "u771f">>, <<"[", "u5f85", "u586b", "u5199", "]">>,
                                 <<"u90ae", "u7f16">>, <<"[", "u5f85", "u586b", "u5199", "]">>>>,
                                <<<<"u7535", "u5b50", "u90ae", "u7bb1">>,
                                  <<"[", "u5f85", "u586b", "u5199", "]">>, <<>>, <<>>>>>>),
        add_paragraph,
        add_paragraph,
        add_body_no_indent(<<"u59d4", "u6258", "u4eba", "uff08", "u76d6", "u7ae0", "uff09",
                             "uff1a">> \o get_company_name(bid, registry_rows)),
        add_body_no_indent(<<"u6cd5", "u5b9a", "u4ee3", "u8868", "u4eba", "/", "u8d1f", "u8d23",
                             "u4eba", "uff08", "u7b7e", "u5b57", "u6216", "u76d6", "u7ae0",
                             "uff09", "uff1a">>),
        add_body_no_indent(<<"u59d4", "u6258", "u4ee3", "u7406", "u4eba", "uff08", "u7b7e",
                             "u5b57", "uff09", "uff1a">>),
        add_body_no_indent(<<"u65e5", "u671f", "uff1a", " ", " ", " ", " ", "u5e74", " ", " ",
                             " ", " ", "u6708", " ", " ", " ", " ", "u65e5">>)>>)

\* _gen_business_license(doc, section, bid, app_config)
gen_business_license(section, bid, registry_rows) ==
    Concat(<<
        add_section_header(<<"u8425", "u4e1a", "u6267", "u7167">>),
        add_paragraph,
        add_body(<<"uff08", "u8be6", "u89c1", "u9644", "u4ef6", "uff1a", "u8425", "u4e1a",
                   "u6267", "u7167", "u590d", "u5370", "u4ef6", "u52a0", "u76d6", "u516c",
                   "u7ae0", "uff09">>),
        (IF AttachmentOf(section, registry_rows) = None THEN <<>>
         ELSE NotesOf(AttachmentOf(section, registry_rows))),
        add_paragraph,
        add_body(<<"u5355", "u4f4d", "u540d", "u79f0", "uff1a">>
                 \o get_company_name(bid, registry_rows)),
        add_body(<<"u7edf", "u4e00", "u793e", "u4f1a", "u4fe1", "u7528", "u4ee3", "u7801",
                   "uff1a", "[", "u5f85", "u586b", "u5199", "]">>),
        add_body(<<"u7c7b", " ", " ", " ", " ", "u578b", "uff1a", "[", "u5f85", "u586b", "u5199",
                    "]">>),
        add_body(<<"u8d1f", " ", "u8d23", " ", "u4eba", "uff1a", "[", "u5f85", "u586b", "u5199",
                   "]">>),
        add_body(<<"u4f4f", " ", " ", " ", " ", "u6240", "uff1a", "[", "u5f85", "u586b", "u5199",
                    "]">>),
        add_body(<<"u6210", "u7acb", "u65e5", "u671f", "uff1a", "[", "u5f85", "u586b", "u5199",
                   "]">>),
        add_body(<<"u8425", "u4e1a", "u671f", "u9650", "uff1a", "[", "u5f85", "u586b", "u5199",
                   "]">>)>>)

\* _gen_bid_guarantee(doc, section, bid, app_config)
gen_bid_guarantee(section, bid, registry_rows) ==
    Concat(<<
        add_section_header(<<"u6295", "u6807", "u4fdd", "u8bc1", "u91d1">>),
        add_paragraph,
        add_body(<<"uff08", "u8be6", "u89c1", "u9644", "u4ef6", "uff1a", "u6295", "u6807",
                   "u4fdd", "u8bc1", "u91d1", "u6c47", "u6b3e", "u51ed", "u8bc1", "u6216",
                   "u4fdd", "u51fd", "u590d", "u5370", "u4ef6", "u52a0", "u76d6", "u516c",
                   "u7ae0", "uff09">>),
        add_paragraph,
        add_body(<<"u6211", "u65b9", "u5df2", "u6309", "u7167", "u62db", "u6807", "u6587",
                   "u4ef6", "u8981", "u6c42", "uff0c", "u5728", "u89c4", "u5b9a", "u65f6",
                   "u95f4", "u5185", "u7f34", "u7eb3", "u6295", "u6807", "u4fdd", "u8bc1",
                   "u91d1", "u3002">>)>>)

\* A row of the table of _gen_basic_info_table: the second cell spans the
\* last three columns when the last two are empty
MergedRow(row_data) ==
    IF Len(row_data[3]) = 0 /\ Len(row_data[4]) = 0
    THEN <<row_data[1], row_data[2], row_data[2], row_data[2]>>
    ELSE row_data

\* basic_info of _gen_basic_info_table
basic_info(company_name) ==
    <<<<<<"u6295", "u6807", "u4eba", "u540d", "u79f0">>, company_name, <<>>,
      <<>>>>,
      <<<<"u8be6", "u7ec6", "u5730", "u5740">>,
      <<"[", "u5f85", "u586b", "u5199", "]">>,
      <<>>,
      <<>>>>,
      <<<<"u90ae", "u653f", "u7f16", "u7801">>,
      <<"[", "u5f85", "u586b", "u5199", "]">>,
      <<"u4f20", "u771f">>,
      <<"[", "u5f85", "u586b", "u5199", "]">>>>,
      <<<<"u8054", "u7cfb", "u4eba">>,
      <<"[", "u5f85", "u586b", "u5199", "]">>,
      <<"u8054", "u7cfb", "u7535", "u8bdd">>,
      <<"[", "u5f85", "u586b", "u5199", "]">>>>,
      <<<<"u8d1f", "u8d23", "u4eba">>,
      <<"[", "u5f85", "u586b", "u5199", "]">>,
      <<"u804c", "u52a1", "/", "u804c", "u79f0">>,
      <<"[", "u5f85", "u586b", "u5199", "]">>>>,
      <<<<"u7edf", "u4e00", "u793e", "u4f1a", "u4fe1", "u7528", "u4ee3", "u7801">>,
      <<"[", "u5f85", "u586b", "u5199", "]">>,
      <<>>,
      <<>>>>,
      <<<<"u5355", "u4f4d", "u6027", "u8d28">>,
      <<"[", "u5f85", "u586b", "u5199", "]">>,
      <<>>,
      <<>>>>,
      <<<<"u6210", "u7acb", "u65e5", "u671f">>,
      <<"[", "u5f85", "u586b", "u5199", "]">>,
      <<"u8425", "u4e1a", "u671f", "u9650">>,
      <<"[", "u5f85", "u586b", "u5199", "]">>>>,
      <<<<"u68c0", "u6d4b", "u80fd", "u529b", "u8303", "u56f4">>,
      <<"[", "u5f85", "u586b", "u5199", "]">>,
      <<>>,
      <<>>>>,
      <<<<"u4e3b", "u8981", "u68c0", "u6d4b", "u8bbe", "u5907">>,
      <<"[", "u5f85", "u586b", "u5199", "]">>,
      <<>>,
      <<>>>>>>

\* _gen_basic_info_table(doc, section, bid, app_config)
gen_basic_info_table(section, bid, registry_rows) ==
    Concat(<<
        add_title(<<"u6295", "u6807", "u4eba", "u57fa", "u672c", "u60c5", "u51b5", "u8868">>),
        add_paragraph,
        add_table_with_style([r \in 1..Len(basic_info(get_company_name(bid, registry_rows))) |->
                                 MergedRow(basic_info(get_company_name(bid, registry_rows))[r])]),
        add_paragraph,
        add_body_no_indent(<<"u6295", "u6807", "u4eba", "uff08", "u76d6", "u7ae0", "uff09",
                             "uff1a">> \o get_company_name(bid, registry_rows)),
        add_body_no_indent(<<"u65e5", "u671f", "uff1a", " ", " ", " ", " ", "u5e74", " ", " ",
                             " ", " ", "u6708", " ", " ", " ", " ", "u65e5">>)>>)

\* _gen_cma_cert(doc, section, bid, app_config)
gen_cma_cert(section, bid, registry_rows) ==
    Concat(<<
        add_section_header(<<"C", "M", "A", "u8d44", "u8d28", "u8ba4", "u5b9a", "u8bc1", "u4e66",
                              "u53ca", "u9644", "u8868">>),
        add_paragraph,
        add_body(<<"uff08", "u8be6", "u89c1", "u9644", "u4ef6", "uff1a", "u68c0", "u9a8c",
                   "u68c0", "u6d4b", "u673a", "u6784", "u8d44", "u8d28", "u8ba4", "u5b9a",
                   "u8bc1", "u4e66", "u53ca", "u80fd", "u529b", "u9644", "u8868", "u590d",
                   "u5370", "u4ef6", "u52a0", "u76d6", "u516c", "u7ae0", "uff09">>),
        (IF AttachmentOf(section, registry_rows) = None THEN <<>>
         ELSE NotesOf(AttachmentOf(section, registry_rows))),
        add_paragraph,
        add_body(<<"u8bc1", "u4e66", "u7f16", "u53f7", "uff1a", "[", "u5f85", "u586b", "u5199",
                   "]">>),
        add_body(<<"u6709", "u6548", "u671f", "u81f3", "uff1a", "[", "u5f85", "u586b", "u5199",
                   "]">>),
        add_body(<<"u6211", "u516c", "u53f8", "u5df2", "u53d6", "u5f97", "u68c0", "u9a8c",
                   "u68c0", "u6d4b", "u673a", "u6784", "u8d44", "u8d28", "u8ba4", "u5b9a",
                   "uff08", "C", "M", "A", "uff09", "u8bc1", "u4e66", "uff0c", "u68c0", "u6d4b",
                   "u80fd", "u529b", "u8986", "u76d6", "u672c", "u9879", "u76ee", "u6240",
                   "u6709", "u68c0", "u6d4b", "u53c2", "u6570", "u3002", "u5177", "u4f53",
                   "u68c0", "u6d4b", "u53c2", "u6570", "u3001", "u65b9", "u6cd5", "u53ca",
                   "u68c0", "u51fa", "u9650", "u8be6", "u89c1", "C", "M", "A", "u8d44", "u8d28",
                   "u8ba4", "u5b9a", "u8bc1", "u4e66", "u9644", "u8868", "u3002">>)>>)

\* commitments of _gen_credit_commitment
commitments ==
    <<<<"u6211", "u5355", "u4f4d", "u5177", "u6709", "u72ec", "u7acb", "u627f", "u62c5", "u6c11",
         "u4e8b", "u8d23", "u4efb", "u7684", "u80fd", "u529b", "uff0c", "u5177", "u5907",
        "u6709", "u6548", "u7684", "u8425", "u4e1a", "u6267", "u7167", "u53ca", "u76f8", "u5173",
         "u7ecf", "u8425", "u8d44", "u8d28", "u3002">>,
      <<"u6211", "u5355", "u4f4d", "u5177", "u6709", "u826f", "u597d", "u7684", "u5546", "u4e1a",
         "u4fe1", "u8a89", "u548c", "u5065", "u5168", "u7684", "u8d22", "u52a1", "u4f1a",
        "u8ba1", "u5236", "u5ea6", "u3002">>,
      <<"u6211", "u5355", "u4f4d", "u5177", "u6709", "u5c65", "u884c", "u5408", "u540c", "u6240",
         "u5fc5", "u9700", "u7684", "u8bbe", "u5907", "u548c", "u4e13", "u4e1a", "u6280",
        "u672f", "u80fd", "u529b", "u3002">>,
      <<"u6211", "u5355", "u4f4d", "u5177", "u6709", "u4f9d", "u6cd5", "u7f34", "u7eb3", "u7a0e",
         "u6536", "u548c", "u793e", "u4f1a", "u4fdd", "u969c", "u8d44", "u91d1", "u7684",
        "u826f", "u597d", "u8bb0", "u5f55", "u3002">>,
      <<"u6211", "u5355", "u4f4d", "u53c2", "u52a0", "u672c", "u6b21", "u91c7", "u8d2d", "u6d3b",
         "u52a8", "u524d", "u4e09", "u5e74", "u5185", "uff0c", "u5728", "u7ecf", "u8425",
        "u6d3b", "u52a8", "u4e2d", "u6ca1", "u6709", "u91cd", "u5927", "u8fdd", "u6cd5", "u8bb0",
         "u5f55", "u3002">>,
      <<"u6211", "u5355", "u4f4d", "u4e0d", "u5b58", "u5728", "u5904", "u4e8e", "u88ab", "u8d23",
         "u4ee4", "u505c", "u4ea7", "u505c", "u4e1a", "u3001", "u6682", "u6263", "u6216",
        "u8005", "u540a", "u9500", "u6267", "u7167", "u3001", "u6682", "u6263", "u6216", "u8005",
         "u540a", "u9500", "u8bb8", "u53ef", "u8bc1", "u3001", "u540a", "u9500", "u8d44",
        "u8d28", "u8bc1", "u4e66", "u7b49", "u884c", "u653f", "u5904", "u7f5a", "u671f", "u95f4",
         "u7684", "u60c5", "u5f62", "u3002">>,
      <<"u6211", "u5355", "u4f4d", "u4e0d", "u5b58", "u5728", "u88ab", "u7a0e", "u52a1", "u90e8",
         "u95e8", "u7eb3", "u5165", "u91cd", "u5927", "u7a0e", "u6536", "u8fdd", "u6cd5",
        "u5931", "u4fe1", "u4e3b", "u4f53", "u540d", "u5355", "uff08", "u539f", "\"", "u91cd",
        "u5927", "u7a0e", "u6536", "u8fdd", "u6cd5", "u6848", "u4ef6", "u5f53", "u4e8b", "u4eba",
         "u540d", "u5355", "\"", "uff09", "u7684", "u60c5", "u5f62", "u3002">>,
      <<"u6211", "u5355", "u4f4d", "u4e0d", "u5b58", "u5728", "u88ab", "u5217", "u5165", "u653f",
         "u5e9c", "u91c7", "u8d2d", "u4e25", "u91cd", "u8fdd", "u6cd5", "u5931", "u4fe1",
        "u884c", "u4e3a", "u540d", "u5355", "u7684", "u60c5", "u5f62", "u3002">>,
      <<"u6211", "u5355", "u4f4d", "u4e0d", "u5b58", "u5728", "u88ab", "u5217", "u5165", "u5931",
         "u4fe1", "u88ab", "u6267", "u884c", "u4eba", "u540d", "u5355", "u7684", "u60c5",
        "u5f62", "u3002">>,
      <<"u6211", "u5355", "u4f4d", "u4e0d", "u5b58", "u5728", "u4e0e", "u5176", "u4ed6", "u6295",
         "u6807", "u4eba", "u7684", "u6cd5", "u5b9a", "u4ee3", "u8868", "u4eba", "u6216",
        "u8d1f", "u8d23", "u4eba", "u4e3a", "u540c", "u4e00", "u4eba", "u6216", "u8005", "u5b58",
         "u5728", "u76f4", "u63a5", "u63a7", "u80a1", "u3001", "u7ba1", "u7406", "u5173",
        "u7cfb", "u7684", "u60c5", "u5f62", "u3002">>,
      <<"u6211", "u5355", "u4f4d", "u4e0d", "u5b58", "u5728", "u4e0e", "u62db", "u6807", "u4eba",
         "u5b58", "u5728", "u5229", "u5bb3", "u5173", "u7cfb", "u53ef", "u80fd", "u5f71",
        "u54cd", "u62db", "u6807", "u516c", "u6b63", "u6027", "u7684", "u60c5", "u5f62",
        "u3002">>,
      <<"u6211", "u5355", "u4f4d", "u627f", "u8bfa", "u5728", "u672c", "u9879", "u76ee", "u4e2d",
         "u4e0d", "u5b58", "u5728", "u56f4", "u6807", "u3001", "u4e32", "u6807", "u7b49",
        "u8fdd", "u6cd5", "u8fdd", "u89c4", "u884c", "u4e3a", "uff0c", "u5982", "u6709", "u8fdd",
         "u53cd", "uff0c", "u613f", "u610f", "u63a5", "u53d7", "u76f8", "u5e94", "u6cd5",
        "u5f8b", "u8d23", "u4efb", "u548c", "u5904", "u7f5a", "u3002">>>>

\* _gen_credit_commitment(doc, section, bid, app_config)
gen_credit_commitment(section, bid, registry_rows) ==
    Concat(<<
        add_title(<<"u4fe1", " ", "u8a89", " ", "u627f", " ", "u8bfa", " ", "u4e66">>),
        add_paragraph,
        add_body(<<"u81f4", "uff1a">> \o safe(bid.bidder_name)),
        add_body(<<"uff08", "u62db", "u6807", "u4ee3", "u7406", "u673a", "u6784", "uff1a">>
                 \o safe(bid.agent_name) \o <<"uff09">>),
        add_paragraph,
        add_body(<<"u6211", "u5355", "u4f4d">> \o get_company_name(bid, registry_rows)
                 \o <<"u81ea", "u613f", "u53c2", "u52a0">> \o safe(bid.project_name)
                 \o <<"u7684", "u6295", "u6807", "uff0c", "u73b0", "u90d1", "u91cd", "u4f5c",
                      "u51fa", "u5982", "u4e0b", "u627f", "u8bfa", "uff1a">>),
        add_paragraph,
        Concat([i \in 1..Len(commitments) |->
                   add_body(Digits(i) \o <<".", " ">> \o commitments[i])]),
        add_paragraph,
        add_body(<<"u4ee5", "u4e0a", "u627f", "u8bfa", "u5185", "u5bb9", "u5747", "u771f",
                   "u5b9e", "u3001", "u5408", "u6cd5", "u3001", "u6709", "u6548", "uff0c",
                   "u5982", "u6709", "u865a", "u5047", "uff0c", "u6211", "u5355", "u4f4d",
                   "u613f", "u610f", "u627f", "u62c5", "u76f8", "u5e94", "u6cd5", "u5f8b",
                   "u8d23", "u4efb", "u3002">>),
        seal_and_date(get_company_name(bid, registry_rows))>>)

\* `x or '[待填写]'` for a column of a row that may be gone
ColumnOrToFill(row, column) ==
    IF row = None THEN TO_FILL ELSE OrToFill(row[column])

\* The rows of the table of _gen_personnel_info under its header
PersonnelRows(bid, registry_rows) ==
    IF Len(bid.bid_personnel) = 0 THEN <<[i \in 1..5 |-> <<"[", "u5f85", "u586b", "u5199",
                                                           "]">>]>>
    ELSE [idx \in 1..Len(bid.bid_personnel) |->
            <<Digits(idx),
              IF LinkedRow(registry_rows.personnel, bid.bid_personnel[idx].personnel_id) = None
              THEN <<"[", "u5f85", "u586b", "u5199", "]">>
              ELSE LinkedRow(registry_rows.personnel,
                             bid.bid_personnel[idx].personnel_id).name,
              ColumnOrToFill(LinkedRow(registry_rows.personnel,
                                       bid.bid_personnel[idx].personnel_id), "title"),
              ColumnOrToFill(LinkedRow(registry_rows.personnel,
                                       bid.bid_personnel[idx].personnel_id), "position"),
              OrToFill(bid.bid_personnel[idx].role)>>]

\* _gen_personnel_info(doc, section, bid, app_config)
gen_personnel_info(section, bid, registry_rows) ==
    Concat(<<
        add_title(<<"u9879", "u76ee", "u4eba", "u5458", "u914d", "u7f6e", "u8868">>),
        add_paragraph,
        add_table_with_style(<<<<<<"u5e8f", "u53f7">>, <<"u59d3", "u540d">>,
                                 <<"u804c", "u79f0">>, <<"u804c", "u52a1">>,
                                 <<"u89d2", "u8272">>>>>> \o PersonnelRows(bid, registry_rows)),
        add_paragraph,
        add_body(<<"u6ce8", "uff1a", "u4ee5", "u4e0a", "u4eba", "u5458", "u76f8", "u5173",
                   "u804c", "u79f0", "u8bc1", "u4e66", "u3001", "u8d44", "u683c", "u8bc1",
                   "u4e66", "u8be6", "u89c1", "u9644", "u4ef6", "u590d", "u5370", "u4ef6",
                   "uff08", "u52a0", "u76d6", "u516c", "u7ae0", "uff09", "u3002">>),
        add_paragraph,
        add_body_no_indent(<<"u6295", "u6807", "u4eba", "uff08", "u76d6", "u7ae0", "uff09",
                             "uff1a">> \o get_company_name(bid, registry_rows)),
        add_body_no_indent(<<"u65e5", "u671f", "uff1a", " ", " ", " ", " ", "u5e74", " ", " ",
                             " ", " ", "u6708", " ", " ", " ", " ", "u65e5">>)>>)

\* skeleton_sections of _gen_technical_proposal: the heading and the
\* paragraphs of each
skeleton_sections(project_name) ==
    <<<<<<"u4e00", "u3001", "u9879", "u76ee", "u7406", "u89e3", "u4e0e", "u8ba4", "u8bc6">>,
        <<<<"1", ".", "1", " ", "u9879", "u76ee", "u80cc", "u666f">>,
          <<"[", "u8bf7", "u6839", "u636e">> \o project_name
          \o <<"u7684", "u62db", "u6807", "u6587", "u4ef6", "u8981", "u6c42", "uff0c", "u9610",
               "u8ff0", "u9879", "u76ee", "u80cc", "u666f", "u60c5", "u51b5", "u3002", "]">>,
          <<"1", ".", "2", " ", "u9879", "u76ee", "u610f", "u4e49">>,
          <<"[", "u8bf7", "u9610", "u8ff0", "u672c", "u9879", "u76ee", "u7684", "u91cd", "u8981",
             "u610f", "u4e49", "u548c", "u76ee", "u6807", "u3002", "]">>,
          <<"1", ".", "3", " ", "u5bf9", "u672c", "u9879", "u76ee", "u7684", "u7406", "u89e3">>,
          <<"[", "u8bf7", "u9610", "u8ff0", "u5bf9", "u672c", "u9879", "u76ee", "u68c0", "u6d4b",
             "u5185", "u5bb9", "u3001", "u8303", "u56f4", "u3001", "u6280", "u672f", "u8981",
            "u6c42", "u7b49", "u65b9", "u9762", "u7684", "u7406", "u89e3", "u3002", "]">>>>>>,
      <<<<"u4e8c", "u3001", "u68c0", "u6d4b", "/", "u670d", "u52a1", "u65b9", "u6848">>,
        <<<<"2", ".", "1", " ", "u603b", "u4f53", "u65b9", "u6848">>,
          <<"[", "u8bf7", "u63cf", "u8ff0", "u672c", "u9879", "u76ee", "u7684", "u603b", "u4f53",
             "u5b9e", "u65bd", "u65b9", "u6848", "u548c", "u5de5", "u4f5c", "u601d", "u8def",
            "u3002", "]">>, <<"2", ".", "2", " ", "u68c0", "u6d4b", "u6307", "u6807", "u53ca",
                              "u65b9", "u6cd5">>, <<"[", "u8bf7", "u5217", "u51fa", "u672c",
                                                    "u9879", "u76ee", "u6d89", "u53ca", "u7684",
                                                    "u68c0", "u6d4b", "u6307", "u6807", "u3001",
                                                    "u91c7", "u7528", "u7684", "u68c0", "u6d4b",
                                                    "u65b9", "u6cd5", "u548c", "u6807", "u51c6",
                                                    "u3002", "]">>,
          <<"2", ".", "3", " ", "u91c7", "u6837", "u65b9", "u6848">>,
          <<"[", "u8bf7", "u63cf", "u8ff0", "u91c7", "u6837", "u70b9", "u4f4d", "u8bbe", "u7f6e",
             "u3001", "u91c7", "u6837", "u65b9", "u5f0f", "u3001", "u91c7", "u6837", "u9891",
            "u6b21", "u3001", "u6837", "u54c1", "u4fdd", "u5b58", "u4e0e", "u8fd0", "u8f93",
            "u7b49", "u5185", "u5bb9", "u3002", "]">>, <<"2", ".", "4", " ", "u68c0", "u6d4b",
                                                         "u6d41", "u7a0b">>,
          <<"[", "u8bf7", "u63cf", "u8ff0", "u4ece", "u91c7", "u6837", "u5230", "u51fa", "u5177",
             "u62a5", "u544a", "u7684", "u5b8c", "u6574", "u68c0", "u6d4b", "u6d41", "u7a0b",
            "u3002", "]">>>>>>,
      <<<<"u4e09", "u3001", "u4eba", "u5458", "u914d", "u7f6e", "u65b9", "u6848">>,
        <<<<"3", ".", "1", " ", "u7ec4", "u7ec7", "u67b6", "u6784">>,
          <<"[", "u8bf7", "u63cf", "u8ff0", "u9879", "u76ee", "u7ec4", "u7ec7", "u67b6", "u6784",
             "u53ca", "u5404", "u5c97", "u4f4d", "u804c", "u8d23", "u3002", "]">>,
          <<"3", ".", "2", " ", "u4eba", "u5458", "u914d", "u7f6e">>,
          <<"[", "u8bf7", "u5217", "u51fa", "u62df", "u6295", "u5165", "u672c", "u9879", "u76ee",
             "u7684", "u4e3b", "u8981", "u4eba", "u5458", "u53ca", "u5176", "u8d44", "u8d28",
            "u60c5", "u51b5", "u3002", "]">>, <<"3", ".", "3", " ", "u4eba", "u5458", "u57f9",
                                                "u8bad">>, <<"[", "u8bf7", "u63cf", "u8ff0",
                                                             "u9879", "u76ee", "u542f", "u52a8",
                                                             "u524d", "u53ca", "u5b9e", "u65bd",
                                                             "u8fc7", "u7a0b", "u4e2d", "u7684",
                                                             "u57f9", "u8bad", "u8ba1", "u5212",
                                                             "u3002", "]">>>>>>,
      <<<<"u56db", "u3001", "u4eea", "u5668", "u8bbe", "u5907", "u914d", "u7f6e">>,
        <<<<"4", ".", "1", " ", "u5b9e", "u9a8c", "u5ba4", "u4e3b", "u8981", "u4eea", "u5668",
            "u8bbe", "u5907">>, <<"[", "u8bf7", "u5217", "u51fa", "u5f00", "u5c55", "u672c",
                                  "u9879", "u76ee", "u68c0", "u6d4b", "u6240", "u9700", "u7684",
                                  "u4e3b", "u8981", "u4eea", "u5668", "u8bbe", "u5907", "u3002",
                                  "]">>, <<"4", ".", "2", " ", "u73b0", "u573a", "u91c7",
                                           "u6837", "u8bbe", "u5907">>,
          <<"[", "u8bf7", "u5217", "u51fa", "u73b0", "u573a", "u91c7", "u6837", "u6240", "u9700",
             "u7684", "u8bbe", "u5907", "u548c", "u5de5", "u5177", "u3002", "]">>,
          <<"4", ".", "3", " ", "u4eea", "u5668", "u8bbe", "u5907", "u7ba1", "u7406">>,
          <<"[", "u8bf7", "u63cf", "u8ff0", "u4eea", "u5668", "u8bbe", "u5907", "u7684", "u68c0",
             "u5b9a", "/", "u6821", "u51c6", "u548c", "u7ef4", "u62a4", "u7ba1", "u7406",
            "u63aa", "u65bd", "u3002", "]">>>>>>,
      <<<<"u4e94", "u3001", "u8d28", "u91cf", "u4fdd", "u8bc1", "u63aa", "u65bd">>,
        <<<<"5", ".", "1", " ", "u91c7", "u6837", "u8d28", "u91cf", "u63a7", "u5236">>,
          <<"[", "u8bf7", "u63cf", "u8ff0", "u73b0", "u573a", "u91c7", "u6837", "u73af", "u8282",
             "u7684", "u8d28", "u91cf", "u63a7", "u5236", "u63aa", "u65bd", "u3002", "]">>,
          <<"5", ".", "2", " ", "u5b9e", "u9a8c", "u5ba4", "u68c0", "u6d4b", "u8d28", "u91cf",
            "u63a7", "u5236">>, <<"[", "u8bf7", "u63cf", "u8ff0", "u5b9e", "u9a8c", "u5ba4",
                                  "u68c0", "u6d4b", "u73af", "u8282", "u7684", "u8d28", "u91cf",
                                  "u63a7", "u5236", "u63aa", "u65bd", "uff0c", "u5305", "u62ec",
                                  "u65b9", "u6cd5", "u7a7a", "u767d", "u3001", "u5e73", "u884c",
                                  "u6837", "u3001", "u52a0", "u6807", "u56de", "u6536", "u7b49",
                                  "u3002", "]">>, <<"5", ".", "3", " ", "u62a5", "u544a",
                                                    "u8d28", "u91cf", "u7ba1", "u7406">>,
          <<"[", "u8bf7", "u63cf", "u8ff0", "u68c0", "u6d4b", "u62a5", "u544a", "u7684", "u7f16",
             "u5236", "u3001", "u5ba1", "u6838", "u548c", "u8d28", "u91cf", "u4fdd", "u8bc1",
            "u63aa", "u65bd", "u3002", "]">>>>>>,
      <<<<"u516d", "u3001", "u5b89", "u5168", "u4fdd", "u8bc1", "u63aa", "u65bd">>,
        <<<<"6", ".", "1", " ", "u5b89", "u5168", "u7ba1", "u7406", "u4f53", "u7cfb">>,
          <<"[", "u8bf7", "u63cf", "u8ff0", "u5b89", "u5168", "u7ba1", "u7406", "u7ec4", "u7ec7",
             "u4f53", "u7cfb", "u548c", "u5236", "u5ea6", "u5efa", "u8bbe", "u3002", "]">>,
          <<"6", ".", "2", " ", "u73b0", "u573a", "u91c7", "u6837", "u5b89", "u5168", "u63aa",
            "u65bd">>, <<"[", "u8bf7", "u63cf", "u8ff0", "u73b0", "u573a", "u91c7", "u6837",
                         "u8fc7", "u7a0b", "u4e2d", "u7684", "u5b89", "u5168", "u9632", "u62a4",
                         "u63aa", "u65bd", "u3002", "]">>, <<"6", ".", "3", " ", "u5b9e",
                                                             "u9a8c", "u5ba4", "u5b89", "u5168",
                                                             "u63aa", "u65bd">>,
          <<"[", "u8bf7", "u63cf", "u8ff0", "u5b9e", "u9a8c", "u5ba4", "u64cd", "u4f5c", "u5b89",
             "u5168", "u7ba1", "u7406", "u63aa", "u65bd", "u3002", "]">>,
          <<"6", ".", "4", " ", "u5e94", "u6025", "u9884", "u6848">>,
          <<"[", "u8bf7", "u63cf", "u8ff0", "u7a81", "u53d1", "u4e8b", "u4ef6", "u7684", "u5e94",
             "u6025", "u5904", "u7f6e", "u65b9", "u6848", "u3002", "]">>>>>>,
      <<<<"u4e03", "u3001", "u8fdb", "u5ea6", "u4fdd", "u8bc1", "u63aa", "u65bd">>,
        <<<<"7", ".", "1", " ", "u8fdb", "u5ea6", "u8ba1", "u5212">>,
          <<"[", "u8bf7", "u5236", "u5b9a", "u8be6", "u7ec6", "u7684", "u9879", "u76ee", "u5b9e",
             "u65bd", "u8fdb", "u5ea6", "u8ba1", "u5212", "u3002", "]">>,
          <<"7", ".", "2", " ", "u8fdb", "u5ea6", "u4fdd", "u969c", "u63aa", "u65bd">>,
          <<"[", "u8bf7", "u63cf", "u8ff0", "u786e", "u4fdd", "u6309", "u671f", "u5b8c", "u6210",
             "u5168", "u90e8", "u68c0", "u6d4b", "u4efb", "u52a1", "u7684", "u4fdd", "u969c",
            "u63aa", "u65bd", "u3002", "]">>, <<"7", ".", "3", " ", "u6c9f", "u901a", "u534f",
                                                "u8c03", "u673a", "u5236">>,
          <<"[", "u8bf7", "u63cf", "u8ff0", "u4e0e", "u62db", "u6807", "u65b9", "u7684", "u6c9f",
             "u901a", "u534f", "u8c03", "u673a", "u5236", "u548c", "u62a5", "u544a", "u5236",
            "u5ea6", "u3002", "]">>>>>>>>

Skeleton(sections) ==
    Concat([k \in 1..Len(sections) |->
               add_sub_header(sections[k][1])
               \o Concat([i \in 1..Len(sections[k][2]) |-> add_body(sections[k][2][i])])
               \o add_paragraph])

\* _gen_technical_proposal(doc, section, bid, app_config)
gen_technical_proposal(section, bid, registry_rows) ==
    Concat(<<
        add_title(<<"u6280", " ", " ", "u672f", " ", " ", "u65b9", " ", " ", "u6848">>),
        add_title(safe(bid.project_name)),
        add_paragraph,
        (IF Len(section.custom_content) > 0 THEN CustomLines(section.custom_content)
         ELSE Skeleton(skeleton_sections(safe(bid.project_name))))>>)

\* _gen_technical_deviation(doc, section, bid, app_config)
gen_technical_deviation(section, bid, registry_rows) ==
    Concat(<<
        add_title(<<"u6280", "u672f", "u8981", "u6c42", "u504f", "u5dee", "u8868">>),
        add_paragraph,
        add_table_with_style(<<<<<<"u5e8f", "u53f7">>, <<"u62db", "u6807", "u6587", "u4ef6",
                                                         "u6761", "u6b3e", "u53f7">>,
                                 <<"u62db", "u6807", "u6587", "u4ef6", "u6280", "u672f", "u8981",
                                    "u6c42">>, <<"u6295", "u6807", "u6587", "u4ef6", "u6280",
                                                 "u672f", "u54cd", "u5e94">>,
                                 <<"u504f", "u5dee", "u8bf4", "u660e">>>>,
                               <<<<"/">>, <<"/">>, <<"/">>, <<"u5b8c", "u5168", "u54cd",
                                                              "u5e94">>,
                                 <<"u65e0", "u504f", "u5dee">>>>>>),
        add_paragraph,
        add_body(<<"u8bf4", "u660e", "uff1a", "u6211", "u516c", "u53f8", "u5b8c", "u5168",
                   "u54cd", "u5e94", "u62db", "u6807", "u6587", "u4ef6", "u4e2d", "u7684",
                   "u5168", "u90e8", "u6280", "u672f", "u8981", "u6c42", "uff0c", "u65e0",
                   "u4efb", "u4f55", "u504f", "u5dee", "u3002">>)>>)

\* str(perf.contract_amount): the amount is a float with an integral value
AmountOrToFill(perf) ==
    IF perf = None \/ perf.contract_amount = 0 THEN TO_FILL
    ELSE Digits(perf.contract_amount) \o <<".", "0">>

\* The rows of the table of _gen_performance_proof under its header
PerformanceRows(bid, registry_rows) ==
    IF Len(bid.bid_performances) = 0 THEN <<[i \in 1..6 |-> <<"[", "u5f85", "u586b", "u5199",
                                                              "]">>]>>
    ELSE [idx \in 1..Len(bid.bid_performances) |->
            <<Digits(idx),
              IF LinkedRow(registry_rows.performances,
                           bid.bid_performances[idx].performance_id) = None
              THEN <<"[", "u5f85", "u586b", "u5199", "]">>
              ELSE LinkedRow(registry_rows.performances,
                             bid.bid_performances[idx].performance_id).project_name,
              ColumnOrToFill(LinkedRow(registry_rows.performances,
                                       bid.bid_performances[idx].performance_id),
                             "client_name"),
              ColumnOrToFill(LinkedRow(registry_rows.performances,
                                       bid.bid_performances[idx].performance_id),
                             "description"),
              AmountOrToFill(LinkedRow(registry_rows.performances,
                                       bid.bid_performances[idx].performance_id)),
              format_service_time(LinkedRow(registry_rows.performances,
                                            bid.bid_performances[idx].performance_id))>>]

\* _gen_performance_proof(doc, section, bid, app_config)
gen_performance_proof(section, bid, registry_rows) ==
    Concat(<<
        add_title(<<"u7c7b", "u4f3c", "u9879", "u76ee", "u4e1a", "u7ee9", "u4e00", "u89c8",
                    "u8868">>),
        add_paragraph,
        add_table_with_style(<<<<<<"u5e8f", "u53f7">>, <<"u9879", "u76ee", "u540d", "u79f0">>,
                                 <<"u59d4", "u6258", "u5355", "u4f4d">>,
                                 <<"u670d", "u52a1", "u5185", "u5bb9">>,
                                 <<"u5408", "u540c", "u91d1", "u989d", "u000a", "uff08", "u4e07",
                                    "u5143", "uff09">>, <<"u670d", "u52a1", "u65f6",
                                                          "u95f4">>>>>>
                             \o PerformanceRows(bid, registry_rows)),
        add_paragraph,
        add_body(<<"u6ce8", "uff1a", "u4ee5", "u4e0a", "u9879", "u76ee", "u4e1a", "u7ee9",
                   "u8be6", "u89c1", "u9644", "u4ef6", "uff08", "u5408", "u540c", "u590d",
                   "u5370", "u4ef6", "u6216", "u4e2d", "u6807", "u901a", "u77e5", "u4e66",
                   "u590d", "u5370", "u4ef6", "u52a0", "u76d6", "u516c", "u7ae0", "uff09",
                   "u3002">>),
        add_paragraph,
        add_body_no_indent(<<"u6295", "u6807", "u4eba", "uff08", "u76d6", "u7ae0", "uff09",
                             "uff1a">> \o get_company_name(bid, registry_rows)),
        add_body_no_indent(<<"u65e5", "u671f", "uff1a", " ", " ", " ", " ", "u5e74", " ", " ",
                             " ", " ", "u6708", " ", " ", " ", " ", "u65e5">>)>>)

\* _gen_after_sales(doc, section, bid, app_config)
gen_after_sales(section, bid, registry_rows) ==
    Concat(<<
        add_title(<<"u552e", "u540e", "u670d", "u52a1", "u627f", "u8bfa">>),
        add_paragraph,
        add_body(<<"uff08", "1", "uff09", "u68c0", "u6d4b", "u62a5", "u544a", "u8d28", "u91cf",
                   "u4fdd", "u8bc1", "uff1a", "u6211", "u516c", "u53f8", "u627f", "u8bfa",
                   "u51fa", "u5177", "u7684", "u6240", "u6709", "u68c0", "u6d4b", "u62a5",
                   "u544a", "u5747", "u52a0", "u76d6", "C", "M", "A", "u6807", "u5fd7", "uff0c",
                   "u5177", "u6709", "u6cd5", "u5f8b", "u6548", "u529b", "u3002", "u5982",
                   "u56e0", "u6211", "u65b9", "u539f", "u56e0", "u5bfc", "u81f4", "u68c0",
                   "u6d4b", "u6570", "u636e", "u51fa", "u73b0", "u504f", "u5dee", "uff0c",
                   "u6211", "u65b9", "u5c06", "u514d", "u8d39", "u91cd", "u65b0", "u91c7",
                   "u6837", "u68c0", "u6d4b", "u3002">>),
        add_body(<<"uff08", "2", "uff09", "u62a5", "u544a", "u63d0", "u4ea4", "u65f6", "u9650",
                   "uff1a", "u5e38", "u89c4", "u68c0", "u6d4b", "u9879", "u76ee", "u5728",
                   "u6837", "u54c1", "u9001", "u8fbe", "u5b9e", "u9a8c", "u5ba4", "u540e", "1",
                   "0", "u4e2a", "u5de5", "u4f5c", "u65e5", "u5185", "u51fa", "u5177", "u68c0",
                   "u6d4b", "u62a5", "u544a", "uff1b", "u5982", "u6709", "u7279", "u6b8a",
                   "u65f6", "u9650", "u8981", "u6c42", "uff0c", "u6309", "u7167", "u62db",
                   "u6807", "u65b9", "u8981", "u6c42", "u6267", "u884c", "u3002">>),
        add_body(<<"uff08", "3", "uff09", "u6570", "u636e", "u67e5", "u8be2", "u670d", "u52a1",
                   "uff1a", "u5728", "u9879", "u76ee", "u670d", "u52a1", "u671f", "u5185",
                   "u53ca", "u7ed3", "u675f", "u540e", "1", "u5e74", "u5185", "uff0c", "u62db",
                   "u6807", "u65b9", "u53ef", "u968f", "u65f6", "u67e5", "u8be2", "u3001",
                   "u8c03", "u9605", "u68c0", "u6d4b", "u539f", "u59cb", "u8bb0", "u5f55",
                   "u548c", "u62a5", "u544a", "u6863", "u6848", "u3002">>),
        add_body(<<"uff08", "4", "uff09", "u6280", "u672f", "u54a8", "u8be2", "u670d", "u52a1",
                   "uff1a", "u4e3a", "u62db", "u6807", "u65b9", "u63d0", "u4f9b", "u6c34",
                   "u8d28", "u68c0", "u6d4b", "u76f8", "u5173", "u7684", "u6280", "u672f",
                   "u54a8", "u8be2", "u548c", "u6570", "u636e", "u5206", "u6790", "u670d",
                   "u52a1", "uff0c", "u534f", "u52a9", "u62db", "u6807", "u65b9", "u89e3",
                   "u8bfb", "u68c0", "u6d4b", "u6570", "u636e", "u3001", "u5206", "u6790",
                   "u6c34", "u8d28", "u53d8", "u5316", "u8d8b", "u52bf", "u3002">>),
        add_body(<<"uff08", "5", "uff09", "u5e94", "u6025", "u68c0", "u6d4b", "u670d", "u52a1",
                   "uff1a", "u5728", "u9879", "u76ee", "u670d", "u52a1", "u671f", "u5185",
                   "uff0c", "u5982", "u9047", "u7a81", "u53d1", "u6c34", "u8d28", "u4e8b",
                   "u4ef6", "uff0c", "u6211", "u516c", "u53f8", "u53ef", "u5728", "u63a5",
                   "u5230", "u901a", "u77e5", "u540e", "2", "4", "u5c0f", "u65f6", "u5185",
                   "u5b89", "u6392", "u4eba", "u5458", "u8d76", "u8d74", "u73b0", "u573a",
                   "u8fdb", "u884c", "u5e94", "u6025", "u91c7", "u6837", "u68c0", "u6d4b",
                   "u3002">>),
        add_body(<<"uff08", "6", "uff09", "u4fdd", "u5bc6", "u4e49", "u52a1", "uff1a", "u4e25",
                   "u683c", "u9075", "u5b88", "u4fdd", "u5bc6", "u534f", "u8bae", "uff0c",
                   "u672a", "u7ecf", "u62db", "u6807", "u65b9", "u4e66", "u9762", "u8bb8",
                   "u53ef", "uff0c", "u4e0d", "u5411", "u4efb", "u4f55", "u7b2c", "u4e09",
                   "u65b9", "u900f", "u9732", "u672c", "u9879", "u76ee", "u7684", "u68c0",
                   "u6d4b", "u6570", "u636e", "u548c", "u76f8", "u5173", "u4fe1", "u606f",
                   "u3002">>)>>)

\* section_name of _gen_other
OtherName(section) ==
    IF Len(section.section_name) > 0 THEN section.section_name
    ELSE IF Len(section.section_type) > 0 THEN section.section_type
    ELSE <<"u5176", "u4ed6", "u8d44", "u6599">>

\* _gen_other(doc, section, bid, app_config)
gen_other(section, bid, registry_rows) ==
    Concat(<<
        add_section_header(OtherName(section)),
        add_paragraph,
        (IF AttachmentOf(section, registry_rows) # None
         THEN add_body(<<"uff08", "u8be6", "u89c1", "u9644", "u4ef6", "uff1a">>
                       \o (IF Len(AttachmentOf(section, registry_rows).name) > 0
                      THEN AttachmentOf(section, registry_rows).name
                      ELSE OtherName(section)) \o <<"uff09">>)
              \o NotesOf(AttachmentOf(section, registry_rows))
         ELSE IF Len(section.custom_content) > 0 THEN CustomLines(section.custom_content)
         ELSE add_body(<<"[">> \o OtherName(section) \o <<" ", "-", " ", "u5f85", "u586b",
                                                          "u5199", "]">>))>>)

\* generate_section(doc, section, bid, app_config): the generator of the
\* type of the section, _gen_other for a type that has none
generate_section(section, bid, registry_rows) ==
    IF section.section_type = <<"u6295", "u6807", "u51fd">>
    THEN gen_bid_letter(section, bid, registry_rows)
    ELSE IF section.section_type = <<"u62a5", "u4ef7", "u8868">>
    THEN gen_pricing_table(section, bid, registry_rows)
    ELSE IF section.section_type = <<"u6cd5", "u5b9a", "u4ee3", "u8868", "u4eba", "u8bc1",
                                     "u660e">>
    THEN gen_legal_rep_cert(section, bid, registry_rows)
    ELSE IF section.section_type = <<"u6388", "u6743", "u59d4", "u6258", "u4e66">>
    THEN gen_power_of_attorney(section, bid, registry_rows)
    ELSE IF section.section_type = <<"u8425", "u4e1a", "u6267", "u7167">>
    THEN gen_business_license(section, bid, registry_rows)
    ELSE IF section.section_type = <<"u6295", "u6807", "u4fdd", "u8bc1", "u91d1">>
    THEN gen_bid_guarantee(section, bid, registry_rows)
    ELSE IF section.section_type = <<"u57fa", "u672c", "u60c5", "u51b5", "u8868">>
    THEN gen_basic_info_table(section, bid, registry_rows)
    ELSE IF section.section_type = <<"C", "M", "A", "u8bc1", "u4e66">>
    THEN gen_cma_cert(section, bid, registry_rows)
    ELSE IF section.section_type = <<"u4fe1", "u8a89", "u627f", "u8bfa", "u4e66">>
    THEN gen_credit_commitment(section, bid, registry_rows)
    ELSE IF section.section_type = <<"u4eba", "u5458", "u8d44", "u6599">>
    THEN gen_personnel_info(section, bid, registry_rows)
    ELSE IF section.section_type = <<"u6280", "u672f", "u65b9", "u6848">>
    THEN gen_technical_proposal(section, bid, registry_rows)
    ELSE IF section.section_type = <<"u6280", "u672f", "u504f", "u5dee", "u8868">>
    THEN gen_technical_deviation(section, bid, registry_rows)
    ELSE IF section.section_type = <<"u4e1a", "u7ee9", "u8bc1", "u660e">>
    THEN gen_performance_proof(section, bid, registry_rows)
    ELSE IF section.section_type = <<"u552e", "u540e", "u670d", "u52a1">>
    THEN gen_after_sales(section, bid, registry_rows)
    ELSE gen_other(section, bid, registry_rows)

\* sorted(bid.sections, key=lambda s: s.section_order or 0): equal keys keep
\* their order
InsertBySectionOrder(sorted, s) ==
    InsertAt(sorted, s,
             Cardinality({i \in 1..Len(sorted) : sorted[i].section_order <= s.section_order}))
RECURSIVE SortBySectionOrder(_, _)
SortBySectionOrder(sections, n) ==
    IF n = 0 THEN <<>>
    ELSE InsertBySectionOrder(SortBySectionOrder(sections, n - 1), sections[n])

\* The year and the month of the clock
NOW == [year |-> IntValue(SubSeq(MINUTE, 1, 4)), month |-> IntValue(SubSeq(MINUTE, 5, 6))]

\* The lines of the table of contents of generate_full_bid
ContentsLines(sections) ==
    Concat([idx \in 1..Len(sections) |->
               add_paragraph_with_style(<<" ", " ", " ", " ", "uff08">> \o cn_number(idx)
                                        \o <<"uff09">> \o sections[idx].section_name)])

\* The sections of generate_full_bid: the header of each, its content and a
\* page break
SectionsOf(sections, bid, registry_rows) ==
    Concat([k \in 1..Len(sections) |->
               add_section_header(sections[k].section_name) \o add_paragraph
               \o generate_section(sections[k], bid, registry_rows) \o add_page_break])

\* generate_full_bid(bid, app_config): the body of the document
generate_full_bid(bid, registry_rows) ==
    Concat(<<
        add_paragraph, add_paragraph, add_paragraph, add_paragraph,
        add_paragraph_with_style(<<"u6295", " ", " ", "u6807", " ", " ", "u6587", " ", " ",
                                   "u4ef6">>),
        add_paragraph,
        add_paragraph_with_style(<<"u9879", "u76ee", "u540d", "u79f0", "uff1a">>
                                 \o safe(bid.project_name)),
        add_paragraph,
        add_paragraph_with_style(<<"u6295", "u6807", "u4eba", "uff1a">>
                                 \o get_company_name(bid, registry_rows)),
        add_paragraph,
        add_paragraph_with_style(arabic_to_cn_year(NOW.year) \o <<"u5e74">>
                                 \o arabic_to_cn_month(NOW.month) \o <<"u6708">>),
        add_page_break,
        add_title(<<"u76ee", " ", " ", " ", " ", "u5f55">>),
        add_paragraph,
        ContentsLines(SortBySectionOrder(bid.sections, Len(bid.sections))),
        add_page_break,
        SectionsOf(SortBySectionOrder(bid.sections, Len(bid.sections)), bid, registry_rows)>>)

\* generate_section_preview(section, bid, app_config): the body of the
\* document
generate_section_preview(section, bid, registry_rows) ==
    add_section_header(IF Len(section.section_name) > 0 THEN section.section_name
                       ELSE <<"[", "u672a", "u547d", "u540d", "u7ae0", "u8282", "]">>)
    \o add_paragraph \o generate_section(section, bid, registry_rows)

(***************************************************************************)
(* app.py: the requests of the client                                      *)
(***************************************************************************)
\* The form of bid_add and of bid_edit
BidForm(industry_tags, format_file, requirements_file, tender_file, tender_requirements) ==
    [project_name |-> PROJECT_NAME, bidder_name |-> <<>>, agent_name |-> <<"a">>,
     max_price |-> 50, service_period |-> <<>>, notes |-> COMPANY,
     industry_tags |-> industry_tags, format_file |-> format_file,
     requirements_file |-> requirements_file, tender_file |-> tender_file,
     tender_requirements |-> tender_requirements, tender_format |-> <<>>]

BidForms ==
    {BidForm(WATER, None, None, None, <<>>),
     BidForm(WATER, Upload(NAME_A_DOCX, DOCX_HEADINGS), None, None, <<>>),
     BidForm(WATER, Upload(NAME_A_DOCX, DOCX_HEADINGS), Upload(NAME_A_DOCX, DOCX_BODY),
             None, <<>>),
     BidForm(<<>>, Upload(NAME_FORMAT_DOCX, DOCX_HEADINGS),
             Upload(NAME_REQUIRE_DOCX, DOCX_BODY), None, <<>>),
     BidForm(WATER, Upload(NAME_A_DOCX, DOCX_BODY), None, Upload(NAME_A_PDF, PDF_CHAPTER),
             <<>>),
     BidForm(WATER, None, None, Upload(NAME_A_PDF, PDF_CHAPTER), <<" ", "x", " ">>),
     BidForm(WATER, None, None, Upload(NAME_A_DOCX, JUNK), <<>>),
     BidForm(WATER, Upload(NAME_A_DOCX, JUNK), Upload(NAME_A_PDF, JUNK), None, <<>>),
     BidForm(WATER, None, None, Upload(NAME_A_DOC, DOCX_CHAPTER), <<>>),
     BidForm(WATER, Upload(NAME_A_TXT, DOCX_HEADINGS), None, None, <<>>)}

EditForms ==
    {[BidForm(<<>>, None, None, None, <<"y">>) EXCEPT
         !.project_name = <<"P", "2">>, !.max_price = 0, !.notes = <<>>],
     BidForm(WATER, Upload(NAME_A_DOCX, DOCX_BODY), None, None, <<>>),
     BidForm(WATER, None, None, Upload(NAME_A_DOCX, DOCX_CHAPTER), <<>>)}

\* A text of several lines as the form holds it
RECURSIVE JoinLines(_)
JoinLines(lines) ==
    IF Len(lines) = 0 THEN <<>>
    ELSE IF Len(lines) = 1 THEN lines[1]
    ELSE lines[1] \o <<NEWLINE>> \o JoinLines(Tail(lines))

\* The form of bid_confirm_sections: the lists of its fields
ConfirmForm(section_name, section_type, original_text, requirement_text,
            format_para_index) ==
    [section_name |-> section_name, section_type |-> section_type,
     original_text |-> original_text, requirement_text |-> requirement_text,
     format_para_index |-> format_para_index]

\* The form that holds the list the page showed
OfferedForm(sections) ==
    ConfirmForm([i \in 1..Len(sections) |-> sections[i].section_name],
                [i \in 1..Len(sections) |-> sections[i].section_type],
                [i \in 1..Len(sections) |-> sections[i].original_text],
                [i \in 1..Len(sections) |-> JoinLines(sections[i].requirement_text)],
                [i \in 1..Len(sections) |->
                    IF "format_para_index" \in DOMAIN sections[i]
                    THEN Digits(sections[i].format_para_index) ELSE <<>>])

\* The forms of bid_confirm_sections: the list of the page; sections written
\* by hand, one of them bound to no type, a name that is blank, a
\* paragraph index below 0 and one that is no number; names alone
ConfirmForms(sections) ==
    {OfferedForm(sections),
     ConfirmForm(<<LICENCE, <<" ">>, TYPE_PERSONNEL>>,
                 <<LICENCE, LICENCE, TYPE_PERSONNEL>>,
                 <<<<>>, <<>>, TYPE_PERSONNEL>>,
                 <<<<"u9700", "u63d0", "u4f9b">> \o LICENCE_COPY, <<>>, <<>>>>,
                 <<<<"7">>, <<"-", "9">>, <<"x">>>>),
     ConfirmForm(<<TYPE_PERFORMANCE, <<" ", "a">>>>, <<>>, <<>>, <<>>, <<>>)}

NEW_SECTION == <<"u65b0", "u7ae0", "u8282">>          \* 新章节

\* The forms of bid_section_add: its two fields, or one of them
SectionAddForms ==
    {[section_name |-> LICENCE, section_type |-> LICENCE],
     [section_name |-> <<"a">>], [section_type |-> TYPE_PERFORMANCE]}

\* The forms of bid_section_edit: a record chosen, none chosen, an id that is
\* no number, an upload, and an upload the folder does not take
SectionForm(attachment_id, upload_file) ==
    [section_name |-> <<"a">>, attachment_id |-> attachment_id,
     upload_file |-> upload_file, custom_content |-> <<>>, status |-> "done"]
SectionForms ==
    {SectionForm(<<"1">>, None), SectionForm(<<"2">>, None), SectionForm(<<>>, None),
     SectionForm(<<"x">>, None),
     SectionForm(<<>>, Upload(NAME_A_PDF, PDF_CHAPTER)),
     SectionForm(<<"1">>, Upload(NAME_A_TXT, JUNK)),
     [upload_file |-> None]}

\* The posted orders of bid_sections_reorder: the ids of the sections turned
\* round, and an id no section has
Orders(sections) ==
    {[i \in 1..Len(sections) |-> sections[Len(sections) + 1 - i].id],
     <<MaxId(sections) + 1>>}

\* The uploads of the handlers of the registry
RegistryUploads == {None, Upload(NAME_A_PDF, PDF_CHAPTER), Upload(NAME_A_TXT, JUNK)}

\* The forms of the attachment handlers
AttachmentForms ==
    {[name |-> LICENCE_COPY, category |-> LICENCE, expiry_date |-> [day |-> TODAY],
      tags |-> <<>>, notes |-> <<"a", NEWLINE, "b">>,
      file |-> Upload(NAME_A_PDF, PDF_CHAPTER)],
     [name |-> <<"x">>, category |-> TYPE_OTHER, expiry_date |-> None,
      tags |-> LICENCE, notes |-> <<>>, file |-> None]}

\* The forms of the personnel handlers
PersonForms ==
    {[name |-> <<"u5f20", "u4e09">>, gender |-> <<"u7537">>, phone |-> <<"1", "3", "8">>,
      position |-> ROLE_PROJECT_LEADER, title |-> <<"u9ad8", "u7ea7">>, skills |-> WATER],
     [name |-> <<"u674e", "u56db">>, gender |-> <<>>, phone |-> <<>>,
      position |-> <<>>, title |-> <<>>, skills |-> <<>>]}

\* The forms of the performance handlers
PerformanceForms ==
    {[project_name |-> <<"P", "1">>, client_name |-> CLIENT,
      description |-> <<"u6c34", "u8d28", "u68c0", "u6d4b">>,
      service_start |-> [day |-> TODAY - 100], service_end |-> [day |-> TODAY - 10],
      service_types |-> WATER, testing_params |-> <<>>, contract_amount |-> 100],
     [project_name |-> <<"P", "2">>, client_name |-> <<>>, description |-> <<>>,
      service_start |-> None, service_end |-> None, service_types |-> <<>>,
      testing_params |-> <<>>, contract_amount |-> 0]}

\* The request ends in an exception: nothing is committed and the response
\* carries no cookie
Failed(handler, flash, format_file, fmt_result, req_result, result) ==
    /\ response' = [Response(handler, "exception", flash, fmt_result, req_result, result)
                    EXCEPT !.format_file = format_file]
    /\ request' = None
    /\ UNCHANGED <<disk, clock, registry, bids, session, m_out>>

\* get_or_404 found no row
Missing(handler) ==
    /\ response' = Plain(handler, "not_found", <<>>)
    /\ UNCHANGED <<disk, clock, registry, bids, session, request, m_out>>

\* The ids a request may name: those of the rows and one of no row
IdsOf(rows) == {rows[k].id : k \in 1..Len(rows)} \cup {MaxId(rows) + 1}

\* The seconds a handler may save its next upload in: the clock does not go
\* back, and it is read when a file is saved
Seconds(file, from) ==
    IF Sent(file) /\ allowed_file(file.filename) THEN from..MaxClock ELSE {from}

\* login, POST: a client that is logged in is sent on, which is one of its
\* requests
Login ==
    \E right \in BOOLEAN :
        IF LoggedIn
        THEN /\ budget > 0
             /\ budget' = budget - 1
             /\ response' = Plain("login", "redirect", <<>>)
             /\ UNCHANGED <<disk, clock, registry, bids, session, request, m_out>>
        ELSE IF right
        THEN /\ session' = [session EXCEPT !.keys = @ \cup LoginKeys]
             /\ response' = [Plain("login", "redirect", <<>>) EXCEPT !.cookie = session']
             /\ UNCHANGED <<disk, clock, registry, bids, request, budget, m_out>>
        ELSE /\ response' = Plain("login", "render", <<"danger">>)
             /\ UNCHANGED <<disk, clock, registry, bids, session, request, budget, m_out>>

\* check_login: a request of a client that is not logged in is redirected
\* to the login page
CheckLogin ==
    /\ ~LoggedIn
    /\ response' = Plain("check_login", "redirect_login", <<>>)
    /\ UNCHANGED <<disk, clock, registry, bids, session, request, budget, m_out>>

\* logout
Logout ==
    /\ Served
    /\ session' = EmptySession
    /\ response' = [Plain("logout", "redirect_login", <<>>) EXCEPT !.cookie = session']
    /\ budget' = budget - 1
    /\ UNCHANGED <<disk, clock, registry, bids, request, m_out>>

\* The section list built from a format template's sections and the dict of
\* the requirements matched to them
FormatParsedSections(sections, dict) ==
    [i \in 1..Len(sections) |->
        [order |-> sections[i].order, section_name |-> sections[i].section_name,
         section_type |-> sections[i].section_type,
         category |-> sections[i].category,
         match_score |-> sections[i].match_score,
         original_text |-> sections[i].heading_text,
         requirement_text |-> RequirementOf(dict, sections[i]),
         format_heading_text |-> sections[i].heading_text,
         format_para_index |-> sections[i].para_index]]

\* section_requirements of the format branch
FormatRequirements(fmt_result, req_result) ==
    IF req_result # None /\ req_result.success
    THEN match_requirements_to_sections(req_result, fmt_result.sections)
    ELSE <<>>

\* The request in flight
Request(handler, step, id, loaded, format_path, requirements_path, tender_path) ==
    [handler |-> handler, step |-> step, id |-> id, cookie |-> session,
     loaded |-> loaded, format_path |-> format_path,
     requirements_path |-> requirements_path, tender_path |-> tender_path,
     format_file |-> None, fmt_result |-> None, req_result |-> None, result |-> None]

InFlight(handler, step) ==
    request # None /\ request.handler = handler /\ request.step = step

\* The row of the project as the request in flight sees it: each commit
\* expires the object, which is loaded again when it is read
ExpiredObject == request.loaded = None
Gone == ExpiredObject /\ ~HasRow(bids, request.id)
Loaded == IF ExpiredObject THEN RowOf(bids, request.id) ELSE request.loaded

\* The flush of a commit: a column is written when the handler assigned it a
\* value other than the loaded one, and every assigned column is written
\* when the object was expired.  `loaded` is the object as the handler holds
\* it.
Dirty(loaded, column, assigned, value) ==
    assigned /\ (loaded = None \/ loaded[column] # value)

\* StaleDataError: the UPDATE of the flush found no row
Stale(id, requirements_dirty, format_dirty) ==
    ~HasRow(bids, id) /\ (requirements_dirty \/ format_dirty)

\* The table after the commit of the request in flight
Committed(id, requirements_dirty, requirements, format_dirty, format) ==
    IF ~HasRow(bids, id) THEN bids
    ELSE WithRow(bids,
             [RowOf(bids, id) EXCEPT
                 !.tender_requirements = IF requirements_dirty THEN requirements ELSE @,
                 !.tender_format = IF format_dirty THEN format ELSE @])

\* bid_add, POST, to the first commit: the three uploads are saved and the
\* project is inserted
BidAdded(form, format_path, requirements_path, tender_path, now) ==
    /\ disk' = Saved(Saved(Saved(disk, form.format_file, format_path),
                           form.requirements_file, requirements_path),
                     form.tender_file, tender_path)
    /\ clock' = now
    /\ bids' = Append(bids,
                      [BidProject(NextId(bids), form.project_name, form.industry_tags,
                                  format_path, requirements_path, tender_path,
                                  StrippedLines(form.tender_requirements),
                                  StrippedLines(form.tender_format), "parsing")
                       EXCEPT !.bidder_name = form.bidder_name,
                              !.agent_name = form.agent_name,
                              !.max_price = form.max_price,
                              !.service_period = form.service_period,
                              !.notes = form.notes])
    /\ request' = Request("bid_add",
                          IF \/ Len(format_path) > 0
                             \/ /\ Len(tender_path) > 0
                                /\ ExtensionOf(tender_path) \in TENDER_EXTENSIONS
                          THEN "parse" ELSE "respond",
                          NextId(bids), None, format_path, requirements_path,
                          tender_path)
    /\ budget' = budget - 1
    /\ UNCHANGED <<registry, session, response, m_out>>

BidAdd ==
    /\ Served /\ request = None
    /\ \E form \in BidForms :
        \E t1 \in Seconds(form.format_file, clock) :
            \E t2 \in Seconds(form.requirements_file, t1) :
                \E t3 \in Seconds(form.tender_file, t2) :
                    BidAdded(form,
                             save_upload(form.format_file, FOLDER_ATTACHMENTS, t1),
                             save_upload(form.requirements_file, FOLDER_ATTACHMENTS, t2),
                             save_upload(form.tender_file, FOLDER_ATTACHMENTS, t3),
                             t3)

\* The format branch of bid_add and of bid_reparse, once the two parsers
\* have answered: the text of the requirements document is committed.  req
\* is the request, next the step that follows.
FormatParsed(req, next, format_file, fmt_result, req_result) ==
    IF IsRaised(req_result)
    THEN Failed(req.handler, <<>>, format_file, fmt_result, Raised, None)
    ELSE IF req_result # None /\ req_result.success
    THEN IF Stale(req.id,
                  Dirty(req.loaded, "tender_requirements", TRUE, req_result.full_text),
                  FALSE)
         THEN Failed(req.handler, <<>>, format_file, fmt_result, req_result, None)
         ELSE /\ bids' = Committed(req.id,
                                   Dirty(req.loaded, "tender_requirements", TRUE,
                                         req_result.full_text),
                                   req_result.full_text, FALSE, <<>>)
              /\ request' = [req EXCEPT !.step = next, !.loaded = None,
                                        !.format_file = format_file,
                                        !.fmt_result = fmt_result,
                                        !.req_result = req_result]
              /\ UNCHANGED <<disk, clock, registry, session, response, m_out>>
    ELSE /\ request' = [req EXCEPT !.step = next,
                                   !.format_file = format_file,
                                   !.fmt_result = fmt_result,
                                   !.req_result = req_result]
         /\ UNCHANGED <<disk, clock, registry, bids, session, response, m_out>>

\* The two parsers of the format branch on the files of the stored paths.
\* bid_add answers after them; bid_reparse turns to the tender file when the
\* template gave no section list.
FormatStep(req, format_path, requirements_path) ==
    FormatParsed(req,
                 IF parse_format_template(DocxAt(disk, format_path)).success
                    \/ req.handler = "bid_add"
                 THEN "respond" ELSE "tender",
                 DocxAt(disk, format_path),
                 parse_format_template(DocxAt(disk, format_path)),
                 IF Len(requirements_path) > 0
                 THEN parse_requirements_file(FileAt(disk, requirements_path))
                 ELSE None)

\* bid_add, the tender file branch, once the parser has answered: the texts
\* the form left empty are committed.  The object was expired by the first
\* commit and is loaded again when its texts are read.
AddTenderParsed(result) ==
    IF IsRaised(result)
    THEN Failed("bid_add", <<>>, None, None, None, Raised)
    ELSE IF ~result.success
    THEN /\ request' = [request EXCEPT !.step = "respond", !.result = result]
         /\ UNCHANGED <<disk, clock, registry, bids, session, response, m_out>>
    ELSE IF ~HasRow(bids, request.id)
    THEN Failed("bid_add", <<>>, None, None, None, result)
    ELSE /\ bids' = Committed(
                 request.id,
                 Len(RowOf(bids, request.id).tender_requirements) = 0
                     /\ Len(result.requirements) > 0,
                 result.requirements,
                 Len(RowOf(bids, request.id).tender_format) = 0
                     /\ Len(result.format_text) > 0,
                 result.format_text)
         /\ request' = [request EXCEPT !.step = "respond", !.result = result]
         /\ UNCHANGED <<disk, clock, registry, session, response, m_out>>

\* bid_add, from the first commit to the second: the parsers read the files
BidAddParse ==
    /\ InFlight("bid_add", "parse")
    /\ IF Len(request.format_path) > 0
       THEN FormatStep(request, request.format_path, request.requirements_path)
       ELSE AddTenderParsed(parse_tender_file_dual(FileAt(disk, request.tender_path)))
    /\ UNCHANGED budget

\* The session keys of a parsed section list, and the redirect to the
\* confirmation page
Confirming(handler, flash, sections, context, message, requirements, dict) ==
    /\ session' = ParsedSession(request.cookie, sections, context, message,
                                requirements, dict)
    /\ response' = [Response(handler, "redirect_confirm", flash, request.fmt_result,
                             request.req_result, request.result)
                    EXCEPT !.format_file = request.format_file, !.cookie = session']
    /\ request' = None
    /\ UNCHANGED <<disk, clock, registry, bids, m_out>>

\* The response of the format branch when the template was parsed
FormatConfirming(handler, dict) ==
    Confirming(handler, <<"success">>,
               FormatParsedSections(request.fmt_result.sections, dict), <<>>,
               <<request.fmt_result.message>>, Loaded.tender_requirements, dict)

\* The response of the tender file branch when the file was parsed; flash
\* holds what the handler flashed before
TenderConfirming(handler, flash) ==
    Confirming(handler, flash \o <<"success">>, request.result.sections,
               request.result.raw_context,
               request.result.message, request.result.requirements,
               request.result.section_requirements)

FormatSucceeded == request.fmt_result # None /\ request.fmt_result.success
TenderSucceeded == request.result # None /\ request.result.success

\* What a handler flashed for a parser it called: nothing for a parser it did
\* not call, and the warning of a result without success
ParseFlash(parsed) ==
    IF parsed # None /\ ~parsed.success THEN <<"warning">> ELSE <<>>

\* bid_add, the response.  The project is loaded again when the format
\* branch reads its requirements, before it flashes, and when the other
\* branches read its id for the redirect, after they flashed.
BidAddRespond ==
    /\ InFlight("bid_add", "respond")
    /\ IF Gone
       THEN Failed("bid_add",
                   IF FormatSucceeded THEN <<>>
                   ELSE IF TenderSucceeded THEN <<"success">>
                   ELSE ParseFlash(request.fmt_result) \o ParseFlash(request.result),
                   request.format_file, request.fmt_result,
                   request.req_result, request.result)
       ELSE IF FormatSucceeded
       THEN FormatConfirming("bid_add",
                             FormatRequirements(request.fmt_result, request.req_result))
       ELSE IF TenderSucceeded
       THEN TenderConfirming("bid_add", <<>>)
       ELSE Confirming("bid_add",
                       ParseFlash(request.fmt_result) \o ParseFlash(request.result),
                       get_default_sections, <<>>, <<"default">>, <<>>, <<>>)
    /\ UNCHANGED budget

\* bid_reparse, POST, to the commit of the requirements document
BidReparse ==
    /\ Served /\ request = None
    /\ \E id \in IdsOf(bids) :
        IF ~HasRow(bids, id)
        THEN Missing("bid_reparse")
        ELSE IF Len(RowOf(bids, id).format_file_path) > 0
        THEN FormatStep(Request("bid_reparse", "format", id, RowOf(bids, id),
                                RowOf(bids, id).format_file_path,
                                RowOf(bids, id).requirements_file_path, <<>>),
                        RowOf(bids, id).format_file_path,
                        RowOf(bids, id).requirements_file_path)
        ELSE /\ request' = Request("bid_reparse", "tender", id, RowOf(bids, id),
                                   <<>>, <<>>, <<>>)
             /\ UNCHANGED <<disk, clock, registry, bids, session, response, m_out>>
    /\ budget' = budget - 1

\* bid_reparse, the tender file branch, once the parser has answered: the
\* texts the file gave are committed.  row is the object as the handler
\* holds it.
ReparseTenderParsed(row, result) ==
    IF IsRaised(result)
    THEN Failed("bid_reparse", ParseFlash(request.fmt_result),
                request.format_file, request.fmt_result, request.req_result, Raised)
    ELSE IF ~result.success
    THEN /\ request' = [request EXCEPT !.step = "respond", !.loaded = row,
                                       !.result = result]
         /\ UNCHANGED <<disk, clock, registry, bids, session, response, m_out>>
    ELSE IF Stale(request.id,
                  Dirty(row, "tender_requirements", Len(result.requirements) > 0,
                        result.requirements),
                  Dirty(row, "tender_format", Len(result.format_text) > 0,
                        result.format_text))
    THEN Failed("bid_reparse", ParseFlash(request.fmt_result),
                request.format_file, request.fmt_result, request.req_result, result)
    ELSE /\ bids' = Committed(
                 request.id,
                 Dirty(row, "tender_requirements", Len(result.requirements) > 0,
                       result.requirements),
                 result.requirements,
                 Dirty(row, "tender_format", Len(result.format_text) > 0,
                       result.format_text),
                 result.format_text)
         /\ request' = [request EXCEPT !.step = "respond", !.loaded = None,
                                       !.result = result]
         /\ UNCHANGED <<disk, clock, registry, session, response, m_out>>

\* bid_reparse, from the format template to the commit of the tender file
BidReparseTender ==
    /\ InFlight("bid_reparse", "tender")
    /\ IF Gone
       THEN Failed("bid_reparse", ParseFlash(request.fmt_result),
                   request.format_file, request.fmt_result, request.req_result, None)
       ELSE IF Len(Loaded.tender_file_path) > 0
       THEN ReparseTenderParsed(
                Loaded, parse_tender_file_dual(FileAt(disk, Loaded.tender_file_path)))
       ELSE /\ request' = [request EXCEPT !.step = "respond", !.loaded = Loaded]
            /\ UNCHANGED <<disk, clock, registry, bids, session, response, m_out>>
    /\ UNCHANGED budget

\* bid_reparse, the last branch: the default list; parsed_requirements is
\* not assigned
ReparseDefaults(flash) ==
    /\ session' = [request.cookie EXCEPT
                       !.keys = @ \cup (SessionKeys \ {"parsed_requirements"}),
                       !.parsed_sections = get_default_sections,
                       !.parsed_context = <<>>,
                       !.parsed_message = <<"default">>,
                       !.section_requirements = <<>>]
    /\ response' = [Response("bid_reparse", "redirect_confirm", flash,
                             request.fmt_result, request.req_result, request.result)
                    EXCEPT !.format_file = request.format_file, !.cookie = session']
    /\ request' = None
    /\ UNCHANGED <<disk, clock, registry, bids, m_out>>

\* bid_reparse, the response: the warning of a template that gave no
\* section list comes before what the tender file branch flashes.  The
\* project is loaded again as in bid_add.
BidReparseRespond ==
    /\ InFlight("bid_reparse", "respond")
    /\ IF Gone
       THEN Failed("bid_reparse",
                   IF FormatSucceeded THEN <<>>
                   ELSE IF TenderSucceeded
                   THEN ParseFlash(request.fmt_result) \o <<"success">>
                   ELSE ParseFlash(request.fmt_result) \o ParseFlash(request.result),
                   request.format_file, request.fmt_result, request.req_result,
                   request.result)
       ELSE IF FormatSucceeded
       THEN FormatConfirming("bid_reparse",
                             FormatRequirements(request.fmt_result, request.req_result))
       ELSE IF TenderSucceeded
       THEN TenderConfirming("bid_reparse", ParseFlash(request.fmt_result))
       ELSE ReparseDefaults(ParseFlash(request.fmt_result) \o ParseFlash(request.result)
                            \o (IF Len(Loaded.format_file_path) = 0
                                   /\ Len(Loaded.tender_file_path) = 0
                                THEN <<"danger">> ELSE <<>>))
    /\ UNCHANGED budget

\* dict.get(key, default) of a form
FormGet(form, key, default) == IF key \in DOMAIN form THEN form[key] ELSE default

\* The list the confirmation page shows: the session's, or the default one,
\* each section with the requirement the dict of the session holds for it
Offered(cookie) ==
    [i \in 1..Len(IF "parsed_sections" \in cookie.keys THEN cookie.parsed_sections
                  ELSE get_default_sections) |->
        [x \in DOMAIN (IF "parsed_sections" \in cookie.keys THEN cookie.parsed_sections
                       ELSE get_default_sections)[i] \cup {"requirement_text"} |->
            IF x = "requirement_text"
            THEN RequirementOf(
                     IF "section_requirements" \in cookie.keys
                     THEN cookie.section_requirements ELSE <<>>,
                     (IF "parsed_sections" \in cookie.keys THEN cookie.parsed_sections
                      ELSE get_default_sections)[i])
            ELSE (IF "parsed_sections" \in cookie.keys THEN cookie.parsed_sections
                  ELSE get_default_sections)[i][x]]]

\* bid_confirm_sections, GET
BidConfirmGet ==
    /\ Served
    /\ \E id \in IdsOf(bids) :
        IF ~HasRow(bids, id)
        THEN Missing("bid_confirm_sections")
        ELSE /\ response' = [Plain("bid_confirm_sections", "render", <<>>)
                             EXCEPT !.sections = Offered(session)]
             /\ UNCHANGED <<disk, clock, registry, bids, session, request, m_out>>
    /\ budget' = budget - 1

\* lst[i] if i < len(lst) else default, i the index of the model
ListGet(lst, i, default) == IF i <= Len(lst) THEN lst[i] ELSE default

\* para_idx of bid_confirm_sections: int() of the text, None when the text
\* is empty or no number
ParaIndex(para_indices, i) ==
    IF i <= Len(para_indices) /\ Len(para_indices[i]) > 0
       /\ IsIntLiteral(para_indices[i])
    THEN [index |-> IntValue(para_indices[i])]
    ELSE None

\* The indices of the names that are not empty when stripped
Named(names) == SelectSeq([i \in 1..Len(names) |-> i],
                          LAMBDA i : Len(Strip(names[i])) > 0)

\* The sections bid_confirm_sections inserts, with ids after last_id
ConfirmedSections(form, last_id) ==
    [k \in 1..Len(Named(form.section_name)) |->
        BidSection(last_id + k,
                   Strip(form.section_name[Named(form.section_name)[k]]),
                   Named(form.section_name)[k],
                   ListGet(form.section_type, Named(form.section_name)[k], TYPE_OTHER),
                   IF Len(ListGet(form.original_text, Named(form.section_name)[k], <<>>)) > 0
                   THEN "parsed" ELSE "manual",
                   ListGet(form.requirement_text, Named(form.section_name)[k], <<>>),
                   ParaIndex(form.format_para_index, Named(form.section_name)[k]))]

\* Every section of the other projects
OtherSections(id) == Nested(WithoutRow(bids, id), "sections")

\* bid_confirm_sections, POST, to its commit: the sections of the project
\* are deleted and those of the form inserted
BidConfirmPost ==
    /\ Served /\ request = None
    /\ \E id \in IdsOf(bids) :
        IF ~HasRow(bids, id)
        THEN Missing("bid_confirm_sections")
        ELSE \E form \in ConfirmForms(Offered(session)) :
            /\ bids' = WithRow(bids,
                   [RowOf(bids, id) EXCEPT
                       !.sections = ConfirmedSections(form, MaxId(OtherSections(id))),
                       !.status = "in_progress"])
            /\ request' = [Request("bid_confirm_sections", "match", id, None,
                                   <<>>, <<>>, <<>>)
                           EXCEPT !.result = [names |-> Len(form.section_name)]]
            /\ UNCHANGED <<disk, clock, registry, session, response, m_out>>
    /\ budget' = budget - 1

\* What auto_match_all_sections did: the project before and after the call,
\* and what it returned.  A call is consecutive when the call before it was
\* for the same project and neither the project nor the registry has changed
\* since.
MatchOutput(id, matches) ==
    [op |-> "auto_match_all_sections", id |-> id, registry |-> registry,
     before |-> RowOf(bids, id),
     after |-> AutoMatched(RowOf(bids, id), matches),
     result |-> MatchStats(RowOf(bids, id), matches),
     consecutive |-> /\ m_out # None
                     /\ m_out.op = "auto_match_all_sections"
                     /\ m_out.registry = registry
                     /\ m_out.after = RowOf(bids, id)]

\* bid_confirm_sections, POST, from its commit on: auto_match_all_sections,
\* and the keys of the parse leave the session
BidConfirmMatch ==
    /\ InFlight("bid_confirm_sections", "match")
    /\ IF Gone
       THEN Failed("bid_confirm_sections", <<>>, None, None, None, None)
       ELSE /\ bids' = WithRow(bids, AutoMatched(RowOf(bids, request.id),
                                                 Matches(registry, RowOf(bids, request.id))))
            /\ m_out' = MatchOutput(request.id, Matches(registry, RowOf(bids, request.id)))
            /\ session' = [request.cookie EXCEPT
                              !.keys = @ \ SessionKeys,
                              !.parsed_sections = <<>>, !.parsed_context = <<>>,
                              !.parsed_message = <<>>, !.parsed_requirements = <<>>,
                              !.section_requirements = <<>>]
            /\ response' = [Plain("bid_confirm_sections", "redirect", <<"success">>)
                            EXCEPT !.cookie = session']
            /\ request' = None
            /\ UNCHANGED <<disk, clock, registry>>
    /\ UNCHANGED budget

\* bid_auto_match: auto_match_all_sections(bid_project)
AutoMatchAllSections ==
    /\ LoggedIn
    /\ calls < MaxCalls
    /\ \E id \in IdsOf(bids) :
        IF ~HasRow(bids, id)
        THEN Missing("bid_auto_match")
        ELSE /\ bids' = WithRow(bids, AutoMatched(RowOf(bids, id),
                                                  Matches(registry, RowOf(bids, id))))
             /\ m_out' = MatchOutput(id, Matches(registry, RowOf(bids, id)))
             /\ response' = Plain("bid_auto_match", "redirect", <<"success">>)
             /\ UNCHANGED <<disk, clock, registry, session, request>>
    /\ calls' = calls + 1
    /\ UNCHANGED budget

\* The file of a row after an upload took its place: the new file is saved,
\* then the old one is removed
Replaced(folder, file, new_path, old_path) ==
    IF Len(new_path) = 0 THEN folder
    ELSE IF Len(old_path) > 0 THEN Removed(Saved(folder, file, new_path), old_path)
    ELSE Saved(folder, file, new_path)

NewPath(new_path, old_path) == IF Len(new_path) > 0 THEN new_path ELSE old_path

\* bid_edit, POST, once the stored paths of the uploads are known
BidEdited(row, form, format_path, requirements_path, tender_path, now) ==
    /\ disk' = Replaced(Replaced(Replaced(disk, form.format_file, format_path,
                                          row.format_file_path),
                                 form.requirements_file, requirements_path,
                                 row.requirements_file_path),
                        form.tender_file, tender_path, row.tender_file_path)
    /\ clock' = now
    /\ bids' = WithRow(bids,
           [row EXCEPT
               !.project_name = form.project_name,
               !.bidder_name = form.bidder_name,
               !.agent_name = form.agent_name,
               !.max_price = form.max_price,
               !.service_period = form.service_period,
               !.notes = form.notes,
               !.industry_tags = form.industry_tags,
               !.tender_requirements = StrippedLines(form.tender_requirements),
               !.tender_format = StrippedLines(form.tender_format),
               !.format_file_path = NewPath(format_path, @),
               !.requirements_file_path = NewPath(requirements_path, @),
               !.tender_file_path = NewPath(tender_path, @)])
    /\ response' = Plain("bid_edit", "redirect", <<"success">>)
    /\ UNCHANGED <<registry, session, request, m_out>>

\* bid_edit, POST
BidEdit ==
    /\ Served
    /\ \E id \in IdsOf(bids) :
        IF ~HasRow(bids, id)
        THEN Missing("bid_edit")
        ELSE \E form \in EditForms :
            \E t1 \in Seconds(form.format_file, clock) :
                \E t2 \in Seconds(form.requirements_file, t1) :
                    \E t3 \in Seconds(form.tender_file, t2) :
                        BidEdited(RowOf(bids, id), form,
                                  save_upload(form.format_file, FOLDER_ATTACHMENTS, t1),
                                  save_upload(form.requirements_file, FOLDER_ATTACHMENTS, t2),
                                  save_upload(form.tender_file, FOLDER_ATTACHMENTS, t3),
                                  t3)
    /\ budget' = budget - 1

\* bid_delete: the project goes with its sections and its links; its files
\* stay
BidDelete ==
    /\ Served
    /\ \E id \in IdsOf(bids) :
        IF ~HasRow(bids, id)
        THEN Missing("bid_delete")
        ELSE /\ bids' = WithoutRow(bids, id)
             /\ response' = Plain("bid_delete", "redirect", <<"success">>)
             /\ UNCHANGED <<disk, clock, registry, session, request, m_out>>
    /\ budget' = budget - 1

\* Every section of every project
AllSections == Nested(bids, "sections")

\* The project that holds the section
HolderOf(section_id) ==
    bids[CHOOSE k \in 1..Len(bids) : HasRow(bids[k].sections, section_id)]

\* The greatest section_order of the sections of a project, 0 for none
RECURSIVE MaxOrder(_)
MaxOrder(sections) ==
    IF Len(sections) = 0 THEN 0
    ELSE Max2(Head(sections).section_order, MaxOrder(Tail(sections)))

\* bid_section_add
BidSectionAdd ==
    /\ Served
    /\ \E bid_id \in IdsOf(bids) :
        IF ~HasRow(bids, bid_id)
        THEN Missing("bid_section_add")
        ELSE \E form \in SectionAddForms :
            /\ bids' = WithRow(bids,
                   [RowOf(bids, bid_id) EXCEPT
                       !.sections =
                           Append(@, BidSection(MaxId(AllSections) + 1,
                                                FormGet(form, "section_name", NEW_SECTION),
                                                MaxOrder(@) + 1,
                                                FormGet(form, "section_type", TYPE_OTHER),
                                                "manual", <<>>, None))])
            /\ response' = Plain("bid_section_add", "redirect", <<"success">>)
            /\ UNCHANGED <<disk, clock, registry, session, request, m_out>>
    /\ budget' = budget - 1

\* bid_section_delete: the section of the id, of whatever project
BidSectionDelete ==
    /\ Served
    /\ \E section_id \in IdsOf(AllSections) :
        IF ~HasRow(AllSections, section_id)
        THEN Missing("bid_section_delete")
        ELSE /\ bids' = WithRow(bids,
                    [HolderOf(section_id) EXCEPT
                        !.sections = WithoutRow(@, section_id)])
             /\ response' = Plain("bid_section_delete", "redirect", <<"success">>)
             /\ UNCHANGED <<disk, clock, registry, session, request, m_out>>
    /\ budget' = budget - 1

\* The index of an id in the posted order, 0 when it is not there
PlaceIn(order, id) ==
    IF \A i \in 1..Len(order) : order[i] # id THEN 0
    ELSE CHOOSE i \in 1..Len(order) :
             order[i] = id /\ \A j \in (i + 1)..Len(order) : order[j] # id

\* The sections of a project after bid_sections_reorder: each section the
\* list names gets the place of its id, the last one when the list names it
\* twice
Reordered(sections, order) ==
    [i \in 1..Len(sections) |->
        IF PlaceIn(order, sections[i].id) = 0 THEN sections[i]
        ELSE [sections[i] EXCEPT !.section_order = PlaceIn(order, sections[i].id)]]

\* bid_sections_reorder: the sections of the project of the request are
\* placed, those of another project are left
BidSectionsReorder ==
    /\ Served
    /\ \E bid_id \in IdsOf(bids), order \in Orders(AllSections) :
        /\ bids' = [k \in 1..Len(bids) |->
                       IF bids[k].id # bid_id THEN bids[k]
                       ELSE [bids[k] EXCEPT !.sections = Reordered(@, order)]]
        /\ response' = Plain("bid_sections_reorder", "json", <<>>)
        /\ UNCHANGED <<disk, clock, registry, session, request, m_out>>
    /\ budget' = budget - 1

\* suggested_category of bid_section_edit: the category of the taxonomy entry
\* of the section type, 其他 when it has none
SuggestedCategory(sec_type) ==
    IF FirstWhere(Len(SECTION_KEYWORD_MAP),
                  LAMBDA k : SECTION_KEYWORD_MAP[k].type = sec_type) = 0
    THEN TYPE_OTHER
    ELSE SECTION_KEYWORD_MAP[FirstWhere(Len(SECTION_KEYWORD_MAP),
                                        LAMBDA k : SECTION_KEYWORD_MAP[k].type = sec_type)
                            ].category

\* A row of company_attachment
AttachmentRow(id, name, category, file_path, expiry_date, tags) ==
    [id |-> id, name |-> name, category |-> category, file_path |-> file_path,
     expiry_date |-> expiry_date, tags |-> tags, notes |-> <<>>]

\* The section of the id with some of its columns assigned
WithSection(section) ==
    WithRow(bids, [HolderOf(section.id) EXCEPT !.sections = WithRow(@, section)])

\* The columns bid_section_edit assigns whatever the form holds
SectionEdited(section, form) ==
    [section EXCEPT !.section_name = FormGet(form, "section_name", @),
                    !.custom_content = FormGet(form, "custom_content", <<>>),
                    !.status = FormGet(form, "status", "pending")]

\* bid_section_edit, POST, with an upload that was stored: a record of the
\* suggested category is added for it and bound to the section
SectionUploaded(section, form, file_path, now) ==
    /\ disk' = Saved(disk, form.upload_file, file_path)
    /\ clock' = now
    /\ registry' = [registry EXCEPT !.attachments =
           Append(@, AttachmentRow(
               NextId(@),
               IF Len(Strip(FormGet(form, "upload_name", <<>>))) > 0
               THEN Strip(FormGet(form, "upload_name", <<>>))
               ELSE form.upload_file.filename,
               SuggestedCategory(section.section_type), file_path, None, <<>>))]
    /\ bids' = WithSection([SectionEdited(section, form) EXCEPT
                               !.attachment_id = NextId(registry.attachments)])
    /\ response' = Plain("bid_section_edit", "redirect", <<"success", "success">>)
    /\ UNCHANGED <<session, request, m_out>>

\* bid_section_edit, POST
SectionPosted(section, form) ==
    IF Sent(form.upload_file)
    THEN IF allowed_file(form.upload_file.filename)
         THEN \E t \in clock..MaxClock :
                 SectionUploaded(section, form,
                                 save_upload(form.upload_file, FOLDER_ATTACHMENTS, t), t)
         ELSE /\ bids' = WithSection(SectionEdited(section, form))
              /\ response' = Plain("bid_section_edit", "redirect", <<"danger", "success">>)
              /\ UNCHANGED <<disk, clock, registry, session, request, m_out>>
    ELSE IF Len(FormGet(form, "attachment_id", <<>>)) = 0
    THEN /\ bids' = WithSection([SectionEdited(section, form) EXCEPT !.attachment_id = 0])
         /\ response' = Plain("bid_section_edit", "redirect", <<"success">>)
         /\ UNCHANGED <<disk, clock, registry, session, request, m_out>>
    ELSE IF IsIntLiteral(form.attachment_id)
    THEN /\ bids' = WithSection([SectionEdited(section, form) EXCEPT
                                    !.attachment_id = IntValue(form.attachment_id)])
         /\ response' = Plain("bid_section_edit", "redirect", <<"success">>)
         /\ UNCHANGED <<disk, clock, registry, session, request, m_out>>
    ELSE /\ response' = Plain("bid_section_edit", "exception", <<>>)
         /\ UNCHANGED <<disk, clock, registry, bids, session, request, m_out>>

\* bid_section_edit, POST: the project and the section are looked up each
\* by its own id
BidSectionEdit ==
    /\ Served
    /\ \E bid_id \in IdsOf(bids), section_id \in IdsOf(AllSections) :
        IF ~HasRow(bids, bid_id) \/ ~HasRow(AllSections, section_id)
        THEN Missing("bid_section_edit")
        ELSE \E form \in SectionForms : SectionPosted(RowOf(AllSections, section_id), form)
    /\ budget' = budget - 1

(***************************************************************************)
(* app.py: bid_preview and bid_section_preview                             *)
(***************************************************************************)
\* The template as Document() opens it for template_filler: a paragraph of
\* the file that has a text holds it in one run, and so does a cell
RunsOf(text) == IF Len(text) = 0 THEN <<>> ELSE <<text>>
Opened(body) ==
    [k \in 1..Len(body) |->
        IF IsPara(body[k]) THEN FPara(k, RunsOf(body[k].text))
        ELSE FTable(k, [r \in 1..Len(body[k].rows) |->
                           [c \in 1..Len(body[k].rows[r]) |-> RunsOf(body[k].rows[r][c])]])]
TemplateAt(folder, path) ==
    IF DocxAt(folder, path).opens THEN [body |-> Opened(DocxAt(folder, path).body)]
    ELSE UnreadableTemplate

\* The project as template_filler reads it: each link with the row it points
\* at, the dates of a performance by year and month
FillPerformance(row) ==
    IF row = None THEN None
    ELSE [row EXCEPT !.service_start = DateOf(@), !.service_end = DateOf(@)]
FillBid(bid, registry_rows) ==
    [bid EXCEPT
        !.bid_personnel =
            [k \in 1..Len(@) |->
                [role |-> @[k].role,
                 record |-> LinkedRow(registry_rows.personnel, @[k].personnel_id)]],
        !.bid_performances =
            [k \in 1..Len(@) |->
                [record |-> FillPerformance(LinkedRow(registry_rows.performances,
                                                      @[k].performance_id))]]]

\* The names tempfile.NamedTemporaryFile may draw in OUTPUT_FOLDER: tmp, eight
\* characters and the suffix
TEMP_NAMES ==
    {<<"t", "m", "p">> \o [i \in 1..8 |-> c] \o <<".", "d", "o", "c", "x">> : c \in {"a", "b"}}

\* bid.project_name.replace('/', '_')[:50]
SafeName(project_name) ==
    Take([i \in 1..Len(project_name) |->
             IF project_name[i] = "/" THEN "_" ELSE project_name[i]], 50)

DOWNLOAD_FILLED ==
    <<"_", "u6295", "u6807", "u6587", "u4ef6", ".", "d", "o", "c", "x">>
DOWNLOAD_PREVIEW ==
    <<"_", "u6295", "u6807", "u6587", "u4ef6", "u9884", "u89c8", ".", "d", "o", "c", "x">>
DOWNLOAD_SECTION == <<"_", "u9884", "u89c8", ".", "d", "o", "c", "x">>

\* bid_preview, the standard generation: the document is saved in a temporary
\* file of a name no file has
PreviewGenerated(bid, flash) ==
    \E name \in TEMP_NAMES :
        /\ ~Stored(disk, PathJoin(OUTPUT_FOLDER, name))
        /\ disk' = Written(disk, PathJoin(OUTPUT_FOLDER, name),
                           Content("docx", generate_full_bid(bid, registry)))
        /\ bids' = WithRow(bids, [bid EXCEPT
                                     !.output_file_path = PathJoin(OUTPUT_FOLDER, name)])
        /\ response' = SendFile("bid_preview", flash, PathJoin(OUTPUT_FOLDER, name),
                                SafeName(bid.project_name) \o DOWNLOAD_PREVIEW)
        /\ UNCHANGED <<clock, registry, session, request, m_out>>

\* bid_preview with a format template that is stored: the filled document is
\* sent; an exception of generate_filled_document is flashed and the
\* standard generation follows
PreviewFilled(bid, filled_document, now) ==
    IF filled_document = Raised THEN PreviewGenerated(bid, <<"warning">>)
    ELSE /\ disk' = Written(disk, filled_document.output_path,
                            Content("docx", filled_document.body))
         /\ clock' = now
         /\ bids' = WithRow(bids, [bid EXCEPT
                                      !.output_file_path = filled_document.output_path])
         /\ response' = SendFile("bid_preview", <<>>, filled_document.output_path,
                                 SafeName(bid.project_name) \o DOWNLOAD_FILLED)
         /\ UNCHANGED <<registry, session, request, m_out>>

\* bid_preview
BidPreview ==
    /\ Served
    /\ \E bid_id \in IdsOf(bids) :
        IF ~HasRow(bids, bid_id)
        THEN Missing("bid_preview")
        ELSE IF /\ Len(RowOf(bids, bid_id).format_file_path) > 0
                /\ Stored(disk, RowOf(bids, bid_id).format_file_path)
        THEN \E t \in clock..MaxClock :
                PreviewFilled(
                    RowOf(bids, bid_id),
                    generate_filled_document(
                        TemplateAt(disk, RowOf(bids, bid_id).format_file_path),
                        PathJoin(UPLOAD_FOLDER, RowOf(bids, bid_id).format_file_path),
                        FillBid(RowOf(bids, bid_id), registry),
                        SortBySectionOrder(RowOf(bids, bid_id).sections,
                                           Len(RowOf(bids, bid_id).sections)),
                        t),
                    t)
        ELSE PreviewGenerated(RowOf(bids, bid_id), <<>>)
    /\ budget' = budget - 1

\* bid_section_preview: the project and the section are looked up each by
\* its own id, and the document is saved in a temporary file
BidSectionPreview ==
    /\ Served
    /\ \E bid_id \in IdsOf(bids), section_id \in IdsOf(AllSections) :
        IF ~HasRow(bids, bid_id) \/ ~HasRow(AllSections, section_id)
        THEN Missing("bid_section_preview")
        ELSE \E name \in TEMP_NAMES :
            /\ ~Stored(disk, PathJoin(OUTPUT_FOLDER, name))
            /\ disk' = Written(disk, PathJoin(OUTPUT_FOLDER, name),
                               Content("docx",
                                       generate_section_preview(
                                           RowOf(AllSections, section_id),
                                           RowOf(bids, bid_id), registry)))
            /\ response' = SendFile("bid_section_preview", <<>>,
                                    PathJoin(OUTPUT_FOLDER, name),
                                    RowOf(AllSections, section_id).section_name
                                    \o DOWNLOAD_SECTION)
            /\ UNCHANGED <<clock, registry, bids, session, request, m_out>>
    /\ budget' = budget - 1

\* A handler of the registry answers
Answered(handler, flash) ==
    /\ response' = Plain(handler, "redirect", flash)
    /\ UNCHANGED <<bids, session, request, m_out>>

\* attachment_add, POST: the record is added with or without a file
AttachmentAdd ==
    /\ Served
    /\ \E form \in AttachmentForms :
        \E t \in Seconds(form.file, clock) :
            /\ disk' = Saved(disk, form.file, save_upload(form.file, FOLDER_ATTACHMENTS, t))
            /\ clock' = t
            /\ registry' = [registry EXCEPT !.attachments =
                   Append(@, [AttachmentRow(NextId(@), form.name, form.category,
                                            save_upload(form.file, FOLDER_ATTACHMENTS, t),
                                            form.expiry_date, form.tags)
                              EXCEPT !.notes = form.notes])]
            /\ Answered("attachment_add", <<"success">>)
    /\ budget' = budget - 1

\* attachment_edit, POST
AttachmentEdit ==
    /\ Served
    /\ \E id \in IdsOf(registry.attachments) :
        IF ~HasRow(registry.attachments, id)
        THEN Missing("attachment_edit")
        ELSE \E form \in AttachmentForms :
            \E t \in Seconds(form.file, clock) :
                /\ disk' = Replaced(disk, form.file,
                                    save_upload(form.file, FOLDER_ATTACHMENTS, t),
                                    RowOf(registry.attachments, id).file_path)
                /\ clock' = t
                /\ registry' = [registry EXCEPT !.attachments =
                       WithRow(@, [RowOf(@, id) EXCEPT
                           !.name = form.name, !.category = form.category,
                           !.expiry_date = form.expiry_date, !.tags = form.tags,
                           !.notes = form.notes,
                           !.file_path =
                               NewPath(save_upload(form.file, FOLDER_ATTACHMENTS, t), @)])]
                /\ Answered("attachment_edit", <<"success">>)
    /\ budget' = budget - 1

\* attachment_delete: the file and the record go, the sections bound to the
\* record keep its id
AttachmentDelete ==
    /\ Served
    /\ \E id \in IdsOf(registry.attachments) :
        IF ~HasRow(registry.attachments, id)
        THEN Missing("attachment_delete")
        ELSE /\ disk' = Removed(disk, RowOf(registry.attachments, id).file_path)
             /\ registry' = [registry EXCEPT !.attachments = WithoutRow(@, id)]
             /\ Answered("attachment_delete", <<"success">>)
             /\ UNCHANGED clock
    /\ budget' = budget - 1

\* A row of personnel
PersonRow(id, form) ==
    [id |-> id, name |-> form.name, gender |-> form.gender, phone |-> form.phone,
     social_security_unit |-> <<>>, position |-> form.position, title |-> form.title,
     skills |-> form.skills, certificates |-> <<>>]

\* personnel_add, POST
PersonnelAdd ==
    /\ Served
    /\ \E form \in PersonForms :
        /\ registry' = [registry EXCEPT !.personnel = Append(@, PersonRow(NextId(@), form))]
        /\ Answered("personnel_add", <<"success">>)
        /\ UNCHANGED <<disk, clock>>
    /\ budget' = budget - 1

\* personnel_edit, POST
PersonnelEdit ==
    /\ Served
    /\ \E id \in IdsOf(registry.personnel) :
        IF ~HasRow(registry.personnel, id)
        THEN Missing("personnel_edit")
        ELSE \E form \in PersonForms :
            /\ registry' = [registry EXCEPT !.personnel =
                   WithRow(@, [RowOf(@, id) EXCEPT
                       !.name = form.name, !.gender = form.gender,
                       !.phone = form.phone,
                       !.position = form.position, !.title = form.title,
                       !.skills = form.skills])]
            /\ Answered("personnel_edit", <<"success">>)
            /\ UNCHANGED <<disk, clock>>
    /\ budget' = budget - 1

\* The upload folder without the files of some rows
RECURSIVE RemovedAll(_, _)
RemovedAll(folder, rows) ==
    IF Len(rows) = 0 THEN folder
    ELSE RemovedAll(IF Len(Head(rows).file_path) > 0
                    THEN Removed(folder, Head(rows).file_path) ELSE folder,
                    Tail(rows))

\* personnel_delete: the person goes with its certificates and their files,
\* the links of the projects keep its id
PersonnelDelete ==
    /\ Served
    /\ \E id \in IdsOf(registry.personnel) :
        IF ~HasRow(registry.personnel, id)
        THEN Missing("personnel_delete")
        ELSE /\ disk' = RemovedAll(disk, RowOf(registry.personnel, id).certificates)
             /\ registry' = [registry EXCEPT !.personnel = WithoutRow(@, id)]
             /\ Answered("personnel_delete", <<"success">>)
             /\ UNCHANGED clock
    /\ budget' = budget - 1

\* Every certificate of every person
AllCertificates == Nested(registry.personnel, "certificates")

\* personnel_cert_add: the certificate is added with or without a file
PersonnelCertAdd ==
    /\ Served
    /\ \E id \in IdsOf(registry.personnel) :
        IF ~HasRow(registry.personnel, id)
        THEN Missing("personnel_cert_add")
        ELSE \E file \in RegistryUploads :
            \E t \in Seconds(file, clock) :
                /\ disk' = Saved(disk, file, save_upload(file, FOLDER_PERSONNEL, t))
                /\ clock' = t
                /\ registry' = [registry EXCEPT !.personnel =
                       WithRow(@, [RowOf(@, id) EXCEPT !.certificates =
                           Append(@, [id |-> MaxId(AllCertificates) + 1,
                                      file_path |->
                                          save_upload(file, FOLDER_PERSONNEL, t)])])]
                /\ Answered("personnel_cert_add", <<"success">>)
    /\ budget' = budget - 1

\* certificate_delete
CertificateDelete ==
    /\ Served
    /\ \E cert_id \in IdsOf(AllCertificates) :
        IF ~HasRow(AllCertificates, cert_id)
        THEN Missing("certificate_delete")
        ELSE /\ disk' = RemovedAll(disk, <<RowOf(AllCertificates, cert_id)>>)
             /\ registry' = [registry EXCEPT !.personnel =
                    [k \in 1..Len(@) |->
                        [@[k] EXCEPT !.certificates = WithoutRow(@, cert_id)]]]
             /\ Answered("certificate_delete", <<"success">>)
             /\ UNCHANGED clock
    /\ budget' = budget - 1

\* A row of performance
PerformanceRow(id, form) ==
    [id |-> id, project_name |-> form.project_name, client_name |-> form.client_name,
     description |-> form.description, service_start |-> form.service_start,
     service_end |-> form.service_end,
     service_types |-> form.service_types, testing_params |-> form.testing_params,
     contract_amount |-> form.contract_amount, files |-> <<>>]

\* performance_add, POST
PerformanceAdd ==
    /\ Served
    /\ \E form \in PerformanceForms :
        /\ registry' = [registry EXCEPT !.performances =
               Append(@, PerformanceRow(NextId(@), form))]
        /\ Answered("performance_add", <<"success">>)
        /\ UNCHANGED <<disk, clock>>
    /\ budget' = budget - 1

\* performance_edit, POST
PerformanceEdit ==
    /\ Served
    /\ \E id \in IdsOf(registry.performances) :
        IF ~HasRow(registry.performances, id)
        THEN Missing("performance_edit")
        ELSE \E form \in PerformanceForms :
            /\ registry' = [registry EXCEPT !.performances =
                   WithRow(@, [RowOf(@, id) EXCEPT
                       !.project_name = form.project_name,
                       !.client_name = form.client_name,
                       !.description = form.description,
                       !.service_end = form.service_end,
                       !.service_start = form.service_start,
                       !.service_types = form.service_types,
                       !.testing_params = form.testing_params,
                       !.contract_amount = form.contract_amount])]
            /\ Answered("performance_edit", <<"success">>)
            /\ UNCHANGED <<disk, clock>>
    /\ budget' = budget - 1

\* performance_delete: the performance goes with its files, the links of the
\* projects keep its id
PerformanceDelete ==
    /\ Served
    /\ \E id \in IdsOf(registry.performances) :
        IF ~HasRow(registry.performances, id)
        THEN Missing("performance_delete")
        ELSE /\ disk' = RemovedAll(disk, RowOf(registry.performances, id).files)
             /\ registry' = [registry EXCEPT !.performances = WithoutRow(@, id)]
             /\ Answered("performance_delete", <<"success">>)
             /\ UNCHANGED clock
    /\ budget' = budget - 1

\* Every file of every performance
AllPerformanceFiles == Nested(registry.performances, "files")

\* performance_file_add: a row is added for a file that was stored
PerformanceFileAdd ==
    /\ Served
    /\ \E id \in IdsOf(registry.performances) :
        IF ~HasRow(registry.performances, id)
        THEN Missing("performance_file_add")
        ELSE \E file \in RegistryUploads :
            IF Sent(file) /\ allowed_file(file.filename)
            THEN \E t \in clock..MaxClock :
                /\ disk' = Saved(disk, file, save_upload(file, FOLDER_PERFORMANCE, t))
                /\ clock' = t
                /\ registry' = [registry EXCEPT !.performances =
                       WithRow(@, [RowOf(@, id) EXCEPT !.files =
                           Append(@, [id |-> MaxId(AllPerformanceFiles) + 1,
                                      file_path |->
                                          save_upload(file, FOLDER_PERFORMANCE, t)])])]
                /\ Answered("performance_file_add", <<"success">>)
            ELSE /\ Answered("performance_file_add", <<"danger">>)
                 /\ UNCHANGED <<disk, clock, registry>>
    /\ budget' = budget - 1

\* performance_file_delete
PerformanceFileDelete ==
    /\ Served
    /\ \E file_id \in IdsOf(AllPerformanceFiles) :
        IF ~HasRow(AllPerformanceFiles, file_id)
        THEN Missing("performance_file_delete")
        ELSE /\ disk' = RemovedAll(disk, <<RowOf(AllPerformanceFiles, file_id)>>)
             /\ registry' = [registry EXCEPT !.performances =
                    [k \in 1..Len(@) |->
                        [@[k] EXCEPT !.files = WithoutRow(@, file_id)]]]
             /\ Answered("performance_file_delete", <<"success">>)
             /\ UNCHANGED clock
    /\ budget' = budget - 1

(***************************************************************************)
(* The application as a state machine: a client that logs in and sends its *)
(* requests to an installation whose tables and upload folder are empty,   *)
(* or to one that holds the project and the files an earlier bid_add left  *)
(***************************************************************************)
\* The project bid_add leaves for a format template without a heading and a
\* tender file
\* The template holds a placeholder in a paragraph of its own
DOCX_PLACEHOLDER ==
    Content("docx",
            DOCX_BODY.body
            \o <<Para(<<"[", "u9879", "u76ee", "u540d", "u79f0", "]">>, STYLE_NORMAL)>>)
STORED_TEMPLATE ==
    save_upload(Upload(NAME_FORMAT_DOCX, DOCX_PLACEHOLDER), FOLDER_ATTACHMENTS, 0)
LEFT_PROJECT ==
    BidProject(1, PROJECT_NAME, WATER, STORED_TEMPLATE, <<>>, STORED_FILE, <<>>, <<>>,
               "parsing")
LEFT_FILES ==
    {[path |-> STORED_TEMPLATE, content |-> DOCX_PLACEHOLDER],
     [path |-> STORED_FILE, content |-> PDF_CHAPTER]}

InitApp ==
    /\ \/ disk = {} /\ bids = <<>>
       \/ disk = LEFT_FILES /\ bids = <<LEFT_PROJECT>>
    /\ clock = 0
    /\ registry = NoRegistry
    /\ session = EmptySession
    /\ request = None
    /\ response = None
    /\ budget = MaxRequests
    /\ m_probe = None /\ m_out = None /\ calls = 0
    /\ doc = None /\ probe = None /\ fmt_out = None /\ hd_out = None
    /\ cls_text = <<>> /\ cls_out = None /\ cls_prev = None
    /\ tfile = None /\ parse_out = None
    /\ para = None /\ fill_out = None /\ resolved = None
    /\ job = None /\ filled = None /\ todo = <<>> /\ handled = None
    /\ fmt_sections = <<>> /\ section_requirements = None
    /\ t_probe = None /\ t_out = None

NextApp ==
    \/ Login /\ UNCHANGED <<m_probe, calls>>
          /\ UNCHANGED <<fmtVars, clsVars, tndVars, fillVars, fusVars, reqVars, stpVars>>
    \/ CheckLogin /\ UNCHANGED <<m_probe, calls>>
          /\ UNCHANGED <<fmtVars, clsVars, tndVars, fillVars, fusVars, reqVars, stpVars>>
    \/ Logout /\ UNCHANGED <<m_probe, calls>>
          /\ UNCHANGED <<fmtVars, clsVars, tndVars, fillVars, fusVars, reqVars, stpVars>>
    \/ BidAdd /\ UNCHANGED <<m_probe, calls>>
          /\ UNCHANGED <<fmtVars, clsVars, tndVars, fillVars, fusVars, reqVars, stpVars>>
    \/ BidAddParse /\ UNCHANGED <<m_probe, calls>>
          /\ UNCHANGED <<fmtVars, clsVars, tndVars, fillVars, fusVars, reqVars, stpVars>>
    \/ BidAddRespond /\ UNCHANGED <<m_probe, calls>>
          /\ UNCHANGED <<fmtVars, clsVars, tndVars, fillVars, fusVars, reqVars, stpVars>>
    \/ BidReparse /\ UNCHANGED <<m_probe, calls>>
          /\ UNCHANGED <<fmtVars, clsVars, tndVars, fillVars, fusVars, reqVars, stpVars>>
    \/ BidReparseTender /\ UNCHANGED <<m_probe, calls>>
          /\ UNCHANGED <<fmtVars, clsVars, tndVars, fillVars, fusVars, reqVars, stpVars>>
    \/ BidReparseRespond /\ UNCHANGED <<m_probe, calls>>
          /\ UNCHANGED <<fmtVars, clsVars, tndVars, fillVars, fusVars, reqVars, stpVars>>
    \/ BidConfirmGet /\ UNCHANGED <<m_probe, calls>>
          /\ UNCHANGED <<fmtVars, clsVars, tndVars, fillVars, fusVars, reqVars, stpVars>>
    \/ BidConfirmPost /\ UNCHANGED <<m_probe, calls>>
          /\ UNCHANGED <<fmtVars, clsVars, tndVars, fillVars, fusVars, reqVars, stpVars>>
    \/ BidConfirmMatch /\ UNCHANGED <<m_probe, calls>>
          /\ UNCHANGED <<fmtVars, clsVars, tndVars, fillVars, fusVars, reqVars, stpVars>>
    \/ AutoMatchAllSections /\ UNCHANGED m_probe
          /\ UNCHANGED <<fmtVars, clsVars, tndVars, fillVars, fusVars, reqVars, stpVars>>
    \/ BidEdit /\ UNCHANGED <<m_probe, calls>>
          /\ UNCHANGED <<fmtVars, clsVars, tndVars, fillVars, fusVars, reqVars, stpVars>>
    \/ BidDelete /\ UNCHANGED <<m_probe, calls>>
          /\ UNCHANGED <<fmtVars, clsVars, tndVars, fillVars, fusVars, reqVars, stpVars>>
    \/ BidSectionAdd /\ UNCHANGED <<m_probe, calls>>
          /\ UNCHANGED <<fmtVars, clsVars, tndVars, fillVars, fusVars, reqVars, stpVars>>
    \/ BidSectionDelete /\ UNCHANGED <<m_probe, calls>>
          /\ UNCHANGED <<fmtVars, clsVars, tndVars, fillVars, fusVars, reqVars, stpVars>>
    \/ BidSectionsReorder /\ UNCHANGED <<m_probe, calls>>
          /\ UNCHANGED <<fmtVars, clsVars, tndVars, fillVars, fusVars, reqVars, stpVars>>
    \/ BidSectionEdit /\ UNCHANGED <<m_probe, calls>>
          /\ UNCHANGED <<fmtVars, clsVars, tndVars, fillVars, fusVars, reqVars, stpVars>>
    \/ BidSectionPreview /\ UNCHANGED <<m_probe, calls>>
          /\ UNCHANGED <<fmtVars, clsVars, tndVars, fillVars, fusVars, reqVars, stpVars>>
    \/ BidPreview /\ UNCHANGED <<m_probe, calls>>
          /\ UNCHANGED <<fmtVars, clsVars, tndVars, fillVars, fusVars, reqVars, stpVars>>
    \/ AttachmentAdd /\ UNCHANGED <<m_probe, calls>>
          /\ UNCHANGED <<fmtVars, clsVars, tndVars, fillVars, fusVars, reqVars, stpVars>>
    \/ AttachmentEdit /\ UNCHANGED <<m_probe, calls>>
          /\ UNCHANGED <<fmtVars, clsVars, tndVars, fillVars, fusVars, reqVars, stpVars>>
    \/ AttachmentDelete /\ UNCHANGED <<m_probe, calls>>
          /\ UNCHANGED <<fmtVars, clsVars, tndVars, fillVars, fusVars, reqVars, stpVars>>
    \/ PersonnelAdd /\ UNCHANGED <<m_probe, calls>>
          /\ UNCHANGED <<fmtVars, clsVars, tndVars, fillVars, fusVars, reqVars, stpVars>>
    \/ PersonnelEdit /\ UNCHANGED <<m_probe, calls>>
          /\ UNCHANGED <<fmtVars, clsVars, tndVars, fillVars, fusVars, reqVars, stpVars>>
    \/ PersonnelDelete /\ UNCHANGED <<m_probe, calls>>
          /\ UNCHANGED <<fmtVars, clsVars, tndVars, fillVars, fusVars, reqVars, stpVars>>
    \/ PersonnelCertAdd /\ UNCHANGED <<m_probe, calls>>
          /\ UNCHANGED <<fmtVars, clsVars, tndVars, fillVars, fusVars, reqVars, stpVars>>
    \/ CertificateDelete /\ UNCHANGED <<m_probe, calls>>
          /\ UNCHANGED <<fmtVars, clsVars, tndVars, fillVars, fusVars, reqVars, stpVars>>
    \/ PerformanceAdd /\ UNCHANGED <<m_probe, calls>>
          /\ UNCHANGED <<fmtVars, clsVars, tndVars, fillVars, fusVars, reqVars, stpVars>>
    \/ PerformanceEdit /\ UNCHANGED <<m_probe, calls>>
          /\ UNCHANGED <<fmtVars, clsVars, tndVars, fillVars, fusVars, reqVars, stpVars>>
    \/ PerformanceDelete /\ UNCHANGED <<m_probe, calls>>
          /\ UNCHANGED <<fmtVars, clsVars, tndVars, fillVars, fusVars, reqVars, stpVars>>
    \/ PerformanceFileAdd /\ UNCHANGED <<m_probe, calls>>
          /\ UNCHANGED <<fmtVars, clsVars, tndVars, fillVars, fusVars, reqVars, stpVars>>
    \/ PerformanceFileDelete /\ UNCHANGED <<m_probe, calls>>
          /\ UNCHANGED <<fmtVars, clsVars, tndVars, fillVars, fusVars, reqVars, stpVars>>

SpecApp == InitApp /\ [][NextApp]_vars

(***************************************************************************)
(* The matcher as a state machine: the rankings called on their own, and   *)
(* the requests of a client that is logged in to an installation that      *)
(* holds a registry and a project                                          *)
(***************************************************************************)
\* The files of the records of a registry
PathsOf(rows) == {rows[k].file_path : k \in 1..Len(rows)} \ {<<>>}
DiskOf(reg) ==
    {[path |-> p, content |-> PDF_CHAPTER] :
        p \in PathsOf(reg.attachments)
              \cup PathsOf(Nested(reg.personnel, "certificates"))
              \cup PathsOf(Nested(reg.performances, "files"))}

InitMatch ==
    /\ \/ /\ registry \in {[NoRegistry EXCEPT !.attachments = a] : a \in AttachmentTables}
          /\ m_probe \in {[op |-> "match_attachment", section_type |-> LICENCE,
                            category |-> LICENCE],
                           [op |-> "match_attachment", section_type |-> <<>>,
                            category |-> <<>>]}
          /\ bids = <<>> /\ budget = 0
       \/ /\ registry \in {[NoRegistry EXCEPT !.performances = f] : f \in PerformanceTables}
          /\ m_probe \in {[op |-> "match_performance", project_tags |-> t,
                            years |-> DEFAULT_YEARS] : t \in ProjectTags}
          /\ bids = <<>> /\ budget = 0
       \/ /\ registry \in {[NoRegistry EXCEPT !.personnel = f] : f \in PersonnelTables}
          /\ m_probe \in {[op |-> "match_personnel", project_tags |-> t] :
                             t \in {<<>>, THREE_TAGS, ACCENT_TAGS}}
          /\ bids = <<>> /\ budget = 0
       \/ /\ registry \in {[NoRegistry EXCEPT !.attachments = a] : a \in RescoreTables}
          /\ m_probe \in {[op |-> "auto_match_section", section |-> sec,
                            project_tags |-> WATER] :
                             sec \in {Unbound(LICENCE, <<>>),
                                      Unbound(LICENCE, REQUIREMENT_TEXT),
                                      Unbound(<<>>, REQUIREMENT_TEXT)}}
          /\ bids = <<>> /\ budget = 0
       \/ /\ registry \in Registries
          /\ m_probe = None
          /\ bids \in {<<p>> : p \in Projects}
          /\ budget = 0
       \/ /\ registry = FIVE_REGISTRY
          /\ m_probe = None
          /\ bids = <<FIVE_PROJECT>>
          /\ budget \in {0, MaxEdits}
    /\ disk = DiskOf(registry)
    /\ clock = 0
    /\ session = [EmptySession EXCEPT !.keys = LoginKeys]
    /\ request = None
    /\ response = None
    /\ m_out = None
    /\ calls = 0
    /\ doc = None /\ probe = None /\ fmt_out = None /\ hd_out = None
    /\ cls_text = <<>> /\ cls_out = None /\ cls_prev = None
    /\ tfile = None /\ parse_out = None
    /\ para = None /\ fill_out = None /\ resolved = None
    /\ job = None /\ filled = None /\ todo = <<>> /\ handled = None
    /\ fmt_sections = <<>> /\ section_requirements = None
    /\ t_probe = None /\ t_out = None

\* match_attachment(section_type, category)
MatchAttachment ==
    /\ m_probe # None /\ m_probe.op = "match_attachment"
    /\ m_out = None
    /\ m_out' = [op |-> "match_attachment",
                 result |-> match_attachment(registry.attachments, m_probe.section_type,
                                             m_probe.category)]
    /\ UNCHANGED <<m_probe, calls>>

\* match_performance(project_tags, years)
MatchPerformance ==
    /\ m_probe # None /\ m_probe.op = "match_performance"
    /\ m_out = None
    /\ m_out' = [op |-> "match_performance",
                 result |-> match_performance(registry.performances, m_probe.project_tags,
                                              m_probe.years)]
    /\ UNCHANGED <<m_probe, calls>>

\* match_personnel(project_tags)
MatchPersonnel ==
    /\ m_probe # None /\ m_probe.op = "match_personnel"
    /\ m_out = None
    /\ m_out' = [op |-> "match_personnel",
                 result |-> match_personnel(registry.personnel, m_probe.project_tags)]
    /\ UNCHANGED <<m_probe, calls>>

\* auto_match_section(section, project_tags)
AutoMatchSection ==
    /\ m_probe # None /\ m_probe.op = "auto_match_section"
    /\ m_out = None
    /\ m_out' = [op |-> "auto_match_section",
                 result |-> auto_match_section(registry, m_probe.section,
                                               m_probe.project_tags)]
    /\ UNCHANGED <<m_probe, calls>>

NextMatch ==
    \/ MatchAttachment /\ UNCHANGED <<appVars, fmtVars, clsVars, tndVars, fillVars, fusVars, reqVars, stpVars>>
    \/ MatchPerformance /\ UNCHANGED <<appVars, fmtVars, clsVars, tndVars, fillVars, fusVars, reqVars, stpVars>>
    \/ MatchPersonnel /\ UNCHANGED <<appVars, fmtVars, clsVars, tndVars, fillVars, fusVars, reqVars, stpVars>>
    \/ AutoMatchSection /\ UNCHANGED <<appVars, fmtVars, clsVars, tndVars, fillVars, fusVars, reqVars, stpVars>>
    \/ Login /\ UNCHANGED <<m_probe, calls>>
          /\ UNCHANGED <<fmtVars, clsVars, tndVars, fillVars, fusVars, reqVars, stpVars>>
    \/ CheckLogin /\ UNCHANGED <<m_probe, calls>>
          /\ UNCHANGED <<fmtVars, clsVars, tndVars, fillVars, fusVars, reqVars, stpVars>>
    \/ Logout /\ UNCHANGED <<m_probe, calls>>
          /\ UNCHANGED <<fmtVars, clsVars, tndVars, fillVars, fusVars, reqVars, stpVars>>
    \/ BidAdd /\ UNCHANGED <<m_probe, calls>>
          /\ UNCHANGED <<fmtVars, clsVars, tndVars, fillVars, fusVars, reqVars, stpVars>>
    \/ BidAddParse /\ UNCHANGED <<m_probe, calls>>
          /\ UNCHANGED <<fmtVars, clsVars, tndVars, fillVars, fusVars, reqVars, stpVars>>
    \/ BidAddRespond /\ UNCHANGED <<m_probe, calls>>
          /\ UNCHANGED <<fmtVars, clsVars, tndVars, fillVars, fusVars, reqVars, stpVars>>
    \/ BidReparse /\ UNCHANGED <<m_probe, calls>>
          /\ UNCHANGED <<fmtVars, clsVars, tndVars, fillVars, fusVars, reqVars, stpVars>>
    \/ BidReparseTender /\ UNCHANGED <<m_probe, calls>>
          /\ UNCHANGED <<fmtVars, clsVars, tndVars, fillVars, fusVars, reqVars, stpVars>>
    \/ BidReparseRespond /\ UNCHANGED <<m_probe, calls>>
          /\ UNCHANGED <<fmtVars, clsVars, tndVars, fillVars, fusVars, reqVars, stpVars>>
    \/ BidConfirmGet /\ UNCHANGED <<m_probe, calls>>
          /\ UNCHANGED <<fmtVars, clsVars, tndVars, fillVars, fusVars, reqVars, stpVars>>
    \/ BidConfirmPost /\ UNCHANGED <<m_probe, calls>>
          /\ UNCHANGED <<fmtVars, clsVars, tndVars, fillVars, fusVars, reqVars, stpVars>>
    \/ BidConfirmMatch /\ UNCHANGED <<m_probe, calls>>
          /\ UNCHANGED <<fmtVars, clsVars, tndVars, fillVars, fusVars, reqVars, stpVars>>
    \/ AutoMatchAllSections /\ UNCHANGED m_probe
          /\ UNCHANGED <<fmtVars, clsVars, tndVars, fillVars, fusVars, reqVars, stpVars>>
    \/ BidEdit /\ UNCHANGED <<m_probe, calls>>
          /\ UNCHANGED <<fmtVars, clsVars, tndVars, fillVars, fusVars, reqVars, stpVars>>
    \/ BidDelete /\ UNCHANGED <<m_probe, calls>>
          /\ UNCHANGED <<fmtVars, clsVars, tndVars, fillVars, fusVars, reqVars, stpVars>>
    \/ BidSectionAdd /\ UNCHANGED <<m_probe, calls>>
          /\ UNCHANGED <<fmtVars, clsVars, tndVars, fillVars, fusVars, reqVars, stpVars>>
    \/ BidSectionDelete /\ UNCHANGED <<m_probe, calls>>
          /\ UNCHANGED <<fmtVars, clsVars, tndVars, fillVars, fusVars, reqVars, stpVars>>
    \/ BidSectionsReorder /\ UNCHANGED <<m_probe, calls>>
          /\ UNCHANGED <<fmtVars, clsVars, tndVars, fillVars, fusVars, reqVars, stpVars>>
    \/ BidSectionEdit /\ UNCHANGED <<m_probe, calls>>
          /\ UNCHANGED <<fmtVars, clsVars, tndVars, fillVars, fusVars, reqVars, stpVars>>
    \/ BidSectionPreview /\ UNCHANGED <<m_probe, calls>>
          /\ UNCHANGED <<fmtVars, clsVars, tndVars, fillVars, fusVars, reqVars, stpVars>>
    \/ BidPreview /\ UNCHANGED <<m_probe, calls>>
          /\ UNCHANGED <<fmtVars, clsVars, tndVars, fillVars, fusVars, reqVars, stpVars>>
    \/ AttachmentAdd /\ UNCHANGED <<m_probe, calls>>
          /\ UNCHANGED <<fmtVars, clsVars, tndVars, fillVars, fusVars, reqVars, stpVars>>
    \/ AttachmentEdit /\ UNCHANGED <<m_probe, calls>>
          /\ UNCHANGED <<fmtVars, clsVars, tndVars, fillVars, fusVars, reqVars, stpVars>>
    \/ AttachmentDelete /\ UNCHANGED <<m_probe, calls>>
          /\ UNCHANGED <<fmtVars, clsVars, tndVars, fillVars, fusVars, reqVars, stpVars>>
    \/ PersonnelAdd /\ UNCHANGED <<m_probe, calls>>
          /\ UNCHANGED <<fmtVars, clsVars, tndVars, fillVars, fusVars, reqVars, stpVars>>
    \/ PersonnelEdit /\ UNCHANGED <<m_probe, calls>>
          /\ UNCHANGED <<fmtVars, clsVars, tndVars, fillVars, fusVars, reqVars, stpVars>>
    \/ PersonnelDelete /\ UNCHANGED <<m_probe, calls>>
          /\ UNCHANGED <<fmtVars, clsVars, tndVars, fillVars, fusVars, reqVars, stpVars>>
    \/ PersonnelCertAdd /\ UNCHANGED <<m_probe, calls>>
          /\ UNCHANGED <<fmtVars, clsVars, tndVars, fillVars, fusVars, reqVars, stpVars>>
    \/ CertificateDelete /\ UNCHANGED <<m_probe, calls>>
          /\ UNCHANGED <<fmtVars, clsVars, tndVars, fillVars, fusVars, reqVars, stpVars>>
    \/ PerformanceAdd /\ UNCHANGED <<m_probe, calls>>
          /\ UNCHANGED <<fmtVars, clsVars, tndVars, fillVars, fusVars, reqVars, stpVars>>
    \/ PerformanceEdit /\ UNCHANGED <<m_probe, calls>>
          /\ UNCHANGED <<fmtVars, clsVars, tndVars, fillVars, fusVars, reqVars, stpVars>>
    \/ PerformanceDelete /\ UNCHANGED <<m_probe, calls>>
          /\ UNCHANGED <<fmtVars, clsVars, tndVars, fillVars, fusVars, reqVars, stpVars>>
    \/ PerformanceFileAdd /\ UNCHANGED <<m_probe, calls>>
          /\ UNCHANGED <<fmtVars, clsVars, tndVars, fillVars, fusVars, reqVars, stpVars>>
    \/ PerformanceFileDelete /\ UNCHANGED <<m_probe, calls>>
          /\ UNCHANGED <<fmtVars, clsVars, tndVars, fillVars, fusVars, reqVars, stpVars>>

SpecMatch == InitMatch /\ [][NextMatch]_vars

(***************************************************************************)
(* Claims about the classifier (SpecClassify)                              *)
(***************************************************************************)
RECURSIVE SumLens(_, _)
SumLens(keywords, J) ==
    IF J = {} THEN 0
    ELSE LET j == CHOOSE x \in J : TRUE
         IN Len(keywords[j]) + SumLens(keywords, J \ {j})

\* The reference rule: the raw score of taxonomy entry k for a text.
RefRaw(k, text) ==
    LET kws == SECTION_KEYWORD_MAP[k].keywords
    IN SumLens(kws, {j \in 1..Len(kws) : Contains(Lower(text), Lower(kws[j]))})

RefClassify(text) ==
    LET N == Len(SECTION_KEYWORD_MAP)
        raw == [k \in 1..N |-> RefRaw(k, text)]
        top == CHOOSE m \in {raw[k] : k \in 1..N} : \A k \in 1..N : raw[k] <= m
        first == CHOOSE k \in 1..N :
                    raw[k] = top /\ \A k2 \in 1..(k - 1) : raw[k2] < top
    IN IF top = 0
       THEN [type |-> OTHER_TYPE, category |-> OTHER_TYPE, score |-> 0]
       ELSE [type |-> SECTION_KEYWORD_MAP[first].type,
             category |-> SECTION_KEYWORD_MAP[first].category,
             score |-> IF top * 15 > 100 THEN 100 ELSE top * 15]

TXT_FENXIANG == <<"u5206", "u9879", "u62a5", "u4ef7", "u8868">>   \* 分项报价表
TYPE_BAOJIA == <<"u62a5", "u4ef7", "u8868">>                      \* 报价表

\* C2: classify_section returns what the reference rule gives (highest
\* non-zero sum of matched keyword lengths, first-declared type on a tie,
\* score min(100, raw*15), 其他/其他/0 without a match), and 分项报价表 is a
\* 报价表 of category 报价表 with a positive score.
C2_ClassifyMatchesReference ==
    cls_out # None =>
        /\ cls_out = RefClassify(cls_text)
        /\ cls_text = TXT_FENXIANG =>
              /\ cls_out.type = TYPE_BAOJIA
              /\ cls_out.category = TYPE_BAOJIA
              /\ cls_out.score > 0

\* C2 witness: 分项报价表 has been classified as a 报价表.
C2_Witness ==
    /\ cls_out # None
    /\ cls_prev = None
    /\ cls_text = TXT_FENXIANG
    /\ cls_out.type = TYPE_BAOJIA
    /\ cls_out.score = 90

\* C3: the score of a text with a keyword occurrence appended is at least the
\* score of the text.
C3_ScoreMonotone ==
    cls_prev # None => cls_out.score >= cls_prev.out.score

\* C3 witness: a keyword was appended to a text with a positive score below
\* the cap and the score rose.
C3_Witness ==
    /\ cls_prev # None
    /\ cls_prev.out.score > 0
    /\ cls_out.score > cls_prev.out.score
    /\ cls_out.type # cls_prev.out.type

(***************************************************************************)
(* Claims about the structure recogniser (SpecFormat)                      *)
(***************************************************************************)
Parsed == fmt_out # None
ParsedOk == fmt_out # None /\ fmt_out.success
Matched == hd_out # None /\ hd_out.op = "match_heading"
Converted == hd_out # None /\ hd_out.op = "cn_to_int"

\* The paragraph positions of a section's content range [content_start, content_end).
RangeOf(sec) == {i \in 0..fmt_out.total_paragraphs :
                    sec.content_start <= i /\ i < sec.content_end}
SectionIds == 1..Len(fmt_out.sections)
RangesDisjoint ==
    \A a, b \in SectionIds :
        a # b => RangeOf(fmt_out.sections[a]) \cap RangeOf(fmt_out.sections[b]) = {}
Covered == UNION {RangeOf(fmt_out.sections[a]) : a \in SectionIds}
\* [h_1 + 1, N)
AfterFirstHeading ==
    {i \in 0..fmt_out.total_paragraphs :
        fmt_out.sections[1].para_index + 1 <= i /\ i < fmt_out.total_paragraphs}
LaterHeadings == {fmt_out.sections[a].para_index : a \in SectionIds \ {1}}

\* C1 as stated: the content ranges are pairwise disjoint and their union is
\* the whole interval [h_1+1, N).
C1_RangesCoverEverything ==
    ParsedOk => RangesDisjoint /\ Covered = AfterFirstHeading

\* C1 amended: the content ranges are pairwise disjoint and their union is the
\* interval [h_1+1, N) without the positions of the later headings h_2..h_n,
\* each of which lies between two ranges and in none.
C1_RangesCoverAllButHeadings ==
    ParsedOk =>
        /\ RangesDisjoint
        /\ Covered = AfterFirstHeading \ LaterHeadings
        /\ LaterHeadings \subseteq AfterFirstHeading
        /\ \A a \in SectionIds :
              fmt_out.sections[a].content_start = fmt_out.sections[a].para_index + 1

\* C1 witness: two headings, each followed by content.
C1_Witness ==
    /\ ParsedOk
    /\ Len(fmt_out.sections) >= 2
    /\ \A a \in SectionIds : RangeOf(fmt_out.sections[a]) # {}

CN_UNITS == <<"u4e00", "u4e8c", "u4e09", "u56db", "u4e94",
              "u516d", "u4e03", "u516b", "u4e5d">>        \* 一 .. 九
CN_TEN == "u5341"                                         \* 十
IsUnit(c) == \E d \in 1..9 : CN_UNITS[d] = c
UnitVal(c) == CHOOSE d \in 1..9 : CN_UNITS[d] = c

\* The value C4 gives a numeral: 一..九, 十, 十一..十九, 二十 by their
\* arithmetic, a string of digits by its decimal value, 0 for anything else.
RefOrdinal(n) ==
    IF IsDigitStr(n) THEN DecimalValue(n)
    ELSE IF Len(n) = 1 /\ IsUnit(n[1]) THEN UnitVal(n[1])
    ELSE IF n = <<CN_TEN>> THEN 10
    ELSE IF Len(n) = 2 /\ n[1] = CN_TEN /\ IsUnit(n[2]) THEN 10 + UnitVal(n[2])
    ELSE IF n = <<CN_UNITS[2], CN_TEN>> THEN 20
    ELSE 0

PatternForms == {"sep", "sep_dot", "sep_break", "paren", "paren_ascii", "part"}
AllIn(s, class) == \A i \in 1..Len(s) : s[i] \in class
\* The probe is written as one of the five heading patterns.
ProbeFitsPattern ==
    /\ probe.form \in PatternForms
    /\ Len(probe.text) <= 100
    /\ \/ probe.form = "part"
       \/ AllIn(probe.num, CN_DIGITS)
       \/ AllIn(probe.num, DIGITS)
\* The probe's title, the text up to the end of its line, without its
\* trailing colons.
ProbeCleanName ==
    Strip(StripTrailingColons(Strip(SubSeq(probe.name, 1, LineEnd(probe.name, 1) - 1))))
ProbeNameOk == 2 <= Len(ProbeCleanName) /\ Len(ProbeCleanName) <= 60

\* C4: _cn_to_int gives every numeral the value of RefOrdinal, and so does the
\* ordinal of every heading _match_heading accepts by one of its patterns.
C4_OrdinalConversion ==
    /\ Converted => hd_out.result = RefOrdinal(probe.num)
    /\ (Matched /\ ProbeFitsPattern /\ ProbeNameOk) =>
            /\ hd_out.result # None
            /\ hd_out.result.order_num = RefOrdinal(probe.num)

\* C4 witness: 十二 has been converted to 12.
C4_Witness ==
    /\ Converted
    /\ probe.num = <<"u5341", "u4e8c">>
    /\ hd_out.result = 12

\* The level of each form of heading.
FormLevel(form) == IF form \in {"paren", "paren_ascii"} THEN "sub" ELSE "major"
ScenarioBody == <<Para(TXT_MAJOR, STYLE_NORMAL), Para(TXT_SUB1, STYLE_NORMAL),
                  Para(TXT_SUB2, STYLE_NORMAL)>>

\* C5: a text written as one of the five patterns, with a title of 2..60
\* characters, is a heading of the level of its pattern (N、Title, N.Title and
\* 第N部分 Title major, （N）Title sub); the level returned is always major or
\* sub; the three headings of the scenario give sections 1, 2, 3 of levels
\* major, sub, sub.
C5_FirstPatternDecidesLevel ==
    /\ (Matched /\ hd_out.result # None) => hd_out.result.level \in {"major", "sub"}
    /\ (Matched /\ ProbeFitsPattern /\ ProbeNameOk) =>
            /\ hd_out.result # None
            /\ hd_out.result.level = FormLevel(probe.form)
            /\ hd_out.result.name = ProbeCleanName
    /\ ParsedOk =>
            \A a \in SectionIds :
                /\ fmt_out.sections[a].order = a
                /\ fmt_out.sections[a].heading_level \in {"major", "sub"}
    /\ (Parsed /\ doc.body = ScenarioBody) =>
            /\ fmt_out.success
            /\ Len(fmt_out.sections) = 3
            /\ [a \in 1..3 |-> fmt_out.sections[a].heading_level]
                  = <<"major", "sub", "sub">>

\* C5 witness: an arabic parenthetical heading was matched as a sub heading.
C5_Witness ==
    /\ Matched
    /\ probe.form = "paren_ascii"
    /\ probe.num = <<"1", "2">>
    /\ hd_out.result # None
    /\ hd_out.result.level = "sub"
    /\ hd_out.result.order_num = 12

\* C6 as stated: a text that matches a heading pattern with a cleaned name
\* shorter than 2 or longer than 60 gives no heading candidate.
C6_BadNameRejected ==
    (Matched /\ ProbeFitsPattern /\ ~ProbeNameOk) => hd_out.result = None

\* C7 as stated: has_table holds exactly when a table's paragraph count lies in
\* the half-open content range [content_start, content_end).
TableCounts ==
    {Cardinality({j \in 1..(i - 1) : IsPara(doc.body[j])}) :
        i \in {x \in 1..Len(doc.body) : IsTable(doc.body[x])}}
C7_HasTableHalfOpen ==
    ParsedOk =>
        \A a \in SectionIds :
            fmt_out.sections[a].has_table <=>
                \E c \in TableCounts :
                    /\ fmt_out.sections[a].content_start <= c
                    /\ c < fmt_out.sections[a].content_end

\* C7 amended: has_table holds exactly when a table's paragraph count c lies in
\* content_start <= c <= content_end: the table that stands directly before
\* the next heading (or at the end of the document) has count content_end and
\* belongs to the section.
C7_HasTableClosed ==
    ParsedOk =>
        \A a \in SectionIds :
            fmt_out.sections[a].has_table <=>
                \E c \in TableCounts :
                    /\ fmt_out.sections[a].content_start <= c
                    /\ c <= fmt_out.sections[a].content_end

\* C7 witness: a section whose only table stands directly before the next heading.
C7_Witness ==
    /\ ParsedOk
    /\ \E a \in SectionIds :
          /\ a < Len(fmt_out.sections)
          /\ fmt_out.sections[a].has_table
          /\ \A c \in TableCounts :
                (fmt_out.sections[a].content_start <= c
                   /\ c <= fmt_out.sections[a].content_end)
                => c = fmt_out.sections[a].content_end

(***************************************************************************)
(* Claims about the callers (SpecApp)                                      *)
(***************************************************************************)
\* bid_add or bid_reparse has answered for a project it found
Handled ==
    /\ response # None
    /\ response.handler \in {"bid_add", "bid_reparse"}
    /\ response.outcome # "not_found"

\* The format template the handler parsed has paragraphs and no heading
ZeroHeadings ==
    /\ response.fmt_result # None
    /\ response.format_file.opens
    /\ Len(Paragraphs(response.format_file.body)) > 0
    /\ Len(RawHeadings(Paragraphs(response.format_file.body), 1)) = 0

\* The handler called a parser for the section structure, and no such call
\* gave it a section list
ParsingFailed ==
    /\ response.fmt_result # None \/ response.result # None
    /\ response.fmt_result # None => ~response.fmt_result.success
    /\ response.result # None =>
           IsRaised(response.result) \/ ~response.result.success

\* The fixed default list: 12 entries, orders 1..12, canonical types
IsDefaultList(sections) ==
    /\ sections = get_default_sections
    /\ Len(sections) = 12
    /\ \A i \in 1..Len(sections) :
           /\ sections[i].order = i
           /\ sections[i].section_type \in TaxonomyTypes

\* C8: when parse_format_template finds zero headings it returns
\* success=false with an empty section list, and on every path of bid_add and
\* bid_reparse where parsing fails the handler ends by offering, for
\* confirmation, exactly the default list of 12 entries with orders 1..12 and
\* canonical types.
C8_FailedParseOffersDefaults ==
    Handled =>
        /\ ZeroHeadings => /\ ~response.fmt_result.success
                           /\ response.fmt_result.sections = <<>>
        /\ ParsingFailed => /\ response.outcome = "redirect_confirm"
                            /\ response.cookie # None
                            /\ "parsed_sections" \in response.cookie.keys
                            /\ IsDefaultList(response.cookie.parsed_sections)

(***************************************************************************)
(* Claims about the parse entry points (SpecTender)                        *)
(***************************************************************************)
EntryPointCalled == parse_out # None

\* What the entry point `op` gives for `file`
EntryPoint(op, file) ==
    CASE op = "parse_format_template" -> parse_format_template(AsDocx(file))
      [] op = "parse_tender_file" -> parse_tender_file(file)
      [] op = "parse_tender_file_dual" -> parse_tender_file_dual(file)
      [] op = "parse_requirements_file" -> parse_requirements_file(file)

\* The section list, or the block list, of a returned record
ResultList(op, r) ==
    IF op = "parse_requirements_file" THEN r.requirement_blocks ELSE r.sections

\* The file is of the entry point's format and cannot be opened
Unreadable(op, file) ==
    /\ ~file.opens
    /\ IF op = "parse_format_template" THEN file.ext = "docx"
       ELSE file.ext \in TENDER_FORMATS

\* The file is of the entry point's format, opens, and holds no text
EmptyButReadable(op, file) ==
    /\ file.opens
    /\ IF op = "parse_format_template" THEN file.ext = "docx"
       ELSE file.ext \in TENDER_FORMATS
    /\ Len(extract_text(file)) = 0

\* C9: each parse entry point reports every failure as a returned record with
\* success=false and an empty section/block list, never by raising; an
\* unreadable file is a failure, and it gives an outcome that differs from
\* the outcome of an empty but readable file.
C9_FailuresAreReturned ==
    EntryPointCalled =>
        LET op == parse_out.op
            r == parse_out.result
        IN /\ ~IsRaised(r)
           /\ ~r.success => ResultList(op, r) = <<>>
           /\ Unreadable(op, tfile) => ~r.success
           /\ EmptyButReadable(op, tfile) =>
                  /\ ~r.success
                  /\ r # EntryPoint(op, File(tfile.ext, FALSE, <<>>))

(***************************************************************************)
(* Claims about the placeholder substitution (SpecFill)                    *)
(***************************************************************************)
Substituted == fill_out # None

\* The text holds a bracket-delimited placeholder: an opening bracket, at
\* least one character that is no closing bracket, a closing bracket
HoldsBracketPlaceholder(s) ==
    \E i, j \in 1..Len(s) :
        /\ s[i] \in BRACKET_OPEN /\ s[j] \in BRACKET_CLOSE
        /\ j >= i + 2
        /\ \A k \in (i + 1)..(j - 1) : s[k] \notin BRACKET_CLOSE

\* C10: _replace_paragraph_placeholders leaves the text of every run
\* unchanged when the paragraph's concatenated text holds no bracket-delimited
\* placeholder, runs of underscores included.
C10_NoPlaceholderNoChange ==
    Substituted /\ ~HoldsBracketPlaceholder(ParagraphText(para.runs))
        => fill_out.runs = para.runs

\* A paragraph of several runs with a run of three underscores and brackets
\* that form no placeholder went through the substitution
C10_Witness ==
    /\ Substituted
    /\ ~HoldsBracketPlaceholder(ParagraphText(para.runs))
    /\ UnderlineSearch(ParagraphText(para.runs))
    /\ \E k \in 1..Len(para.runs) : para.runs[k] = <<"]">>
    /\ Len(para.runs) >= 2

(***************************************************************************)
(* Claims about the placeholder dictionary (SpecFill)                      *)
(***************************************************************************)
Resolved == resolved # None

\* The entries of the dictionary whose key is the key, and those whose key
\* holds the key or is held by it
ExactEntries(key) ==
    {k \in 1..Len(PLACEHOLDER_FIELD_MAP) : PLACEHOLDER_FIELD_MAP[k].key = key}
FuzzyEntries(key) ==
    {k \in 1..Len(PLACEHOLDER_FIELD_MAP) :
        \/ Contains(key, PLACEHOLDER_FIELD_MAP[k].key)
        \/ Contains(PLACEHOLDER_FIELD_MAP[k].key, key)}
LeastOf(S) == CHOOSE k \in S : \A j \in S : k <= j
Bracketed(key) == <<"[">> \o key \o <<"]">>

\* The value the rule of the claim gives a key
RefResolve(key, project_data) ==
    IF ExactEntries(Strip(key)) # {}
    THEN project_data[PLACEHOLDER_FIELD_MAP[LeastOf(ExactEntries(Strip(key)))].field]
    ELSE IF FuzzyEntries(Strip(key)) # {}
    THEN project_data[PLACEHOLDER_FIELD_MAP[LeastOf(FuzzyEntries(Strip(key)))].field]
    ELSE Bracketed(Strip(key))

\* A key that neither equals, holds, nor is held by a key of the dictionary
Unresolvable(key) == FuzzyEntries(Strip(key)) = {}

\* The keys pass 1 hands to _resolve_placeholder for the paragraph: the groups
\* of each run, and the groups of the joined text after the runs were
\* substituted one by one, when it still holds a placeholder
SingleRunPass == [k \in 1..Len(para.runs) |-> Substitute(para.runs[k], para.project_data)]
GroupSet(text) == {BracketGroups(text, 1)[k] : k \in 1..Len(BracketGroups(text, 1))}
KeysSeen ==
    UNION {GroupSet(para.runs[r]) : r \in 1..Len(para.runs)}
    \cup GroupSet(ParagraphText(SingleRunPass))
KeptBracketed(key) == Contains(ParagraphText(fill_out.runs), Bracketed(Strip(key)))

\* C11: _resolve_placeholder gives the exact entry's value, else the value of
\* the first entry in declaration order that holds the key or is held by it,
\* else the key in brackets; and after pass 1 every key that it found no
\* entry for is in the paragraph's text in bracketed form.
C11_UnresolvedKept ==
    /\ Resolved => resolved.value = RefResolve(resolved.key, para.project_data)
    /\ Substituted =>
           \A key \in KeysSeen : Unresolvable(key) => KeptBracketed(key)

\* C11, the part on _resolve_placeholder alone
C11_ResolutionRule ==
    Resolved => resolved.value = RefResolve(resolved.key, para.project_data)

(***************************************************************************)
(* Claims about pass 2 of the fusion (SpecFusion)                          *)
(***************************************************************************)
\* fill_template is inside its loop
InLoop == filled # None /\ filled # Raised /\ ~filled.saved

\* The section the loop handles next
NextUp == Head(todo)

\* The paragraph the template has at index i of doc.paragraphs is no longer at
\* index i
ParagraphMoved(i) ==
    /\ i >= 0
    /\ i < Len(Paragraphs(job.template.body))
    /\ \/ i >= Len(Paragraphs(filled.body))
       \/ Paragraphs(filled.body)[i + 1].id # Paragraphs(job.template.body)[i + 1].id

\* The table of the template now at k has another paragraph count than it had,
\* and one of the two counts lies in the range
TableMoved(k, content_start, content_end) ==
    /\ IsTable(filled.body[k])
    /\ ParaCount(filled.body, k) # ParaCount(job.template.body, filled.body[k].id)
    /\ \/ /\ content_start <= ParaCount(filled.body, k)
          /\ ParaCount(filled.body, k) <= content_end
       \/ /\ content_start <= ParaCount(job.template.body, filled.body[k].id)
          /\ ParaCount(job.template.body, filled.body[k].id) <= content_end

\* A position of the range of the section differs from that of the template
Drifted(sec_info) ==
    \/ \E i \in sec_info.content_start..sec_info.content_end : ParagraphMoved(i)
    \/ \E k \in 1..Len(filled.body) :
           TableMoved(k, sec_info.content_start, sec_info.content_end)

\* C12, the order alone: a section is handled after every section with a
\* greater content_start
C12_HandledInOrder ==
    (InLoop /\ handled # None /\ Len(todo) > 0)
        => handled.sec_info.content_start >= NextUp.content_start

\* C12: the sections are handled in non-increasing content_start order, and
\* when a section is about to be handled, the paragraphs and the tables of its
\* range [content_start, content_end] are where the template has them
C12_PositionsAreOriginal ==
    /\ C12_HandledInOrder
    /\ (InLoop /\ Len(todo) > 0) => ~Drifted(NextUp)

\* The section fills a table with the records linked to the bid
Tabular(sec_info) == sec_info.section_type \in {TYPE_PERSONNEL, TYPE_PERFORMANCE}

\* The section has its text put in
FreeText(sec_info) ==
    ~Tabular(sec_info) /\ sec_info.section_type \notin FORM_TYPES
    /\ Len(sec_info.custom_content) > 0

RecordsLinked(sec_info) ==
    IF sec_info.section_type = TYPE_PERSONNEL
    THEN {k \in 1..Len(job.bid.bid_personnel) : job.bid.bid_personnel[k].record # None}
    ELSE {k \in 1..Len(job.bid.bid_performances) : job.bid.bid_performances[k].record # None}

HeaderWords(sec_info) ==
    IF sec_info.section_type = TYPE_PERSONNEL THEN PERSONNEL_HEADER_KEYS
    ELSE PERFORMANCE_HEADER_KEYS

\* The tables of the body that lie in the content range of the section
TablesOfRange(sec_info, body) ==
    {k \in 1..Len(body) :
        /\ body[k].kind = "tbl"
        /\ Len(SelectSeq(SubSeq(body, 1, k - 1), IsPara)) \in
               sec_info.content_start..sec_info.content_end}

\* The rows that hold a header word
HeaderRows(rows, words) ==
    {i \in 1..Len(rows) :
        \E w \in words : Contains(Concat([c \in 1..Len(rows[i]) |-> Concat(rows[i][c])]), w)}

\* The table has fewer than 2 rows, or its header (the first row with a header
\* word, the first row when none has one) is its last row
NothingBelowHeader(rows, words) ==
    \/ Len(rows) < 2
    \/ HeaderRows(rows, words) # {} /\ LeastOf(HeaderRows(rows, words)) = Len(rows)

\* The fill step of the section has no target in the body
MissingTarget(sec_info, body) ==
    \/ Tabular(sec_info) /\ RecordsLinked(sec_info) = {}
    \/ (Tabular(sec_info) \/ sec_info.section_type \in FORM_TYPES)
          /\ TablesOfRange(sec_info, body) = {}
    \/ /\ Tabular(sec_info)
       /\ TablesOfRange(sec_info, body) # {}
       /\ NothingBelowHeader(body[LeastOf(TablesOfRange(sec_info, body))].rows,
                             HeaderWords(sec_info))
    \/ FreeText(sec_info) /\ sec_info.content_start >= Len(SelectSeq(body, IsPara))

\* C13: in pass 2 a section whose target is missing (no record linked, no table
\* in its range, a table with nothing below its header, a reference index at or
\* beyond the number of paragraphs) leaves the document as it was, and
\* fill_template raises only when the template cannot be opened
C13_MissingTargetNoChange ==
    /\ (handled # None /\ MissingTarget(handled.sec_info, handled.before))
           => filled.body = handled.before
    /\ filled = Raised => job.template = UnreadableTemplate

\* C13, the part that holds: a section whose target is missing leaves the
\* document as it was
C13_MissingTargetLeavesBody ==
    (handled # None /\ filled # Raised /\ MissingTarget(handled.sec_info, handled.before))
        => filled.body = handled.before

\* The reference index of the free-text section handled last lies before the
\* first paragraph of the document counted from its end
ReferenceBeforeStart ==
    /\ handled # None
    /\ FreeText(handled.sec_info)
    /\ handled.sec_info.content_start < -Len(Paragraphs(handled.before))

\* What fill_template raises for: a template that cannot be opened, and a
\* free-text section whose reference index lies before the start of the
\* document
C13_RaisesForTemplateOrIndex ==
    filled = Raised => (job.template = UnreadableTemplate \/ ReferenceBeforeStart)

\* A personnel section was handled for a bid with persons linked, and the
\* table of its range has its header in its last row
C13_Witness ==
    /\ handled # None
    /\ handled.sec_info.section_type = TYPE_PERSONNEL
    /\ RecordsLinked(handled.sec_info) # {}
    /\ TablesOfRange(handled.sec_info, handled.before) # {}
    /\ Len(handled.before[LeastOf(TablesOfRange(handled.sec_info, handled.before))].rows) >= 2
    /\ NothingBelowHeader(
           handled.before[LeastOf(TablesOfRange(handled.sec_info, handled.before))].rows,
           PERSONNEL_HEADER_KEYS)

(***************************************************************************)
(* Claims about the matcher (SpecMatch)                                    *)
(***************************************************************************)
\* match_attachment has returned
AttachmentsRanked == m_out # None /\ m_out.op = "match_attachment"

\* The results of pass 1 in what match_attachment returned: those of the
\* category asked for
FromPass1(r) == r.category = m_probe.category
RecordOf(r) == registry.attachments[r.id]

\* The score C14 states for a record of the category: 80, plus 10 unless the
\* record is expired, minus 30 if it is, plus 10 for a file, clipped
StatedExactScore(att) ==
    Clip(80 + (IF Expired(att) THEN -30 ELSE 10) + (IF Len(att.file_path) > 0 THEN 10 ELSE 0))

\* C14: every record of the exact category that match_attachment returns has
\* the score 80, plus 10 if it is unexpired or has no expiry date, minus 30 if
\* it is expired, plus 10 if it has a file, clipped to [0,100]; so an
\* unexpired or no-expiry record with a file scores 100 and an expired one at
\* most 60.
C14_ExactScore ==
    AttachmentsRanked =>
        \A k \in 1..Len(m_out.result) :
            FromPass1(m_out.result[k]) =>
                /\ m_out.result[k].score = StatedExactScore(RecordOf(m_out.result[k]))
                /\ (~Expired(RecordOf(m_out.result[k]))
                        /\ Len(RecordOf(m_out.result[k]).file_path) > 0
                    => m_out.result[k].score = 100)
                /\ (Expired(RecordOf(m_out.result[k])) => m_out.result[k].score <= 60)

\* C14, the part that holds: a record with an expiry date of today or later
\* and a file scores 100, and an expired record of the category at most 60.
C14_DatedScore ==
    AttachmentsRanked =>
        \A k \in 1..Len(m_out.result) :
            FromPass1(m_out.result[k]) =>
                /\ (Unexpired(RecordOf(m_out.result[k]))
                        /\ Len(RecordOf(m_out.result[k]).file_path) > 0
                    => m_out.result[k].score = 100)
                /\ (Expired(RecordOf(m_out.result[k])) => m_out.result[k].score <= 60)

\* C15: every candidate of another category that match_attachment returns
\* has a final score above 0; a record whose final score is 0 is not in the
\* result.
C15_FuzzyScorePositive ==
    AttachmentsRanked =>
        \A k \in 1..Len(m_out.result) :
            ~FromPass1(m_out.result[k]) => m_out.result[k].score > 0

\* C15, the part that holds: every candidate of another category that is
\* returned has points of the name or of the tags, and its final score is
\* those points after the file and expiry adjustments, clipped.
C15_FuzzyHasPoints ==
    AttachmentsRanked =>
        \A k \in 1..Len(m_out.result) :
            ~FromPass1(m_out.result[k]) =>
                /\ FuzzyPoints(RecordOf(m_out.result[k]), m_probe.section_type) \in {30, 40, 70}
                /\ m_out.result[k].score
                     = Clip(FuzzyPoints(RecordOf(m_out.result[k]), m_probe.section_type)
                            + (IF Len(RecordOf(m_out.result[k]).file_path) > 0 THEN 10 ELSE 0)
                            - (IF Expired(RecordOf(m_out.result[k])) THEN 30 ELSE 0))

\* match_performance has returned
PerformancesRanked == m_out # None /\ m_out.op = "match_performance"
PerformanceOf(r) == registry.performances[r.id]

\* The recency component C16 states: 30 within the last N years, 15 when more
\* than N and at most 2N years back, 0 otherwise
StatedRecency(perf, years) ==
    IF perf.service_start = None THEN 0
    ELSE IF perf.service_start.day >= TODAY - years * YEAR_DAYS THEN 30
    ELSE IF perf.service_start.day >= TODAY - 2 * years * YEAR_DAYS THEN 15
    ELSE 0

\* The components of the score other than the recency
OtherPoints(perf, project_tags, years) ==
    PerformanceScore(perf, project_tags, years) - RecencyPoints(perf, years)

\* At most 10 records, in non-increasing order of score, each score in [0,100]
RankedTen(result) ==
    /\ Len(result) <= 10
    /\ \A k \in 1..Len(result) : result[k].score \in 0..100
    /\ \A k \in 1..(Len(result) - 1) : result[k].score >= result[k + 1].score

\* C16: the recency component of a record's score is 30 when its service
\* start lies within the last N years, 15 when it lies more than N but at
\* most 2N years back and 0 otherwise, and the result holds at most 10
\* records in non-increasing order of score, each score in [0,100].
C16_Recency ==
    PerformancesRanked =>
        /\ RankedTen(m_out.result)
        /\ \A k \in 1..Len(m_out.result) :
                m_out.result[k].score
                  = Clip(StatedRecency(PerformanceOf(m_out.result[k]), m_probe.years)
                         + OtherPoints(PerformanceOf(m_out.result[k]), m_probe.project_tags,
                                       m_probe.years))

\* The recency component with the second threshold one year before the first
RecencyOneYearMore(perf, years) ==
    IF perf.service_start = None THEN 0
    ELSE IF perf.service_start.day >= TODAY - years * YEAR_DAYS THEN 30
    ELSE IF perf.service_start.day >= TODAY - (years + 1) * YEAR_DAYS THEN 15
    ELSE 0

\* C16 as amended: the recency component of a record's score is 30 when its
\* service start lies within the last N years (of 365 days), 15 when it lies
\* more than N but at most N + 1 years back and 0 otherwise, and the result
\* holds at most 10 records in non-increasing order of score, each score in
\* [0,100].
C16_RecencyOneYear ==
    PerformancesRanked =>
        /\ RankedTen(m_out.result)
        /\ \A k \in 1..Len(m_out.result) :
                m_out.result[k].score
                  = Clip(RecencyOneYearMore(PerformanceOf(m_out.result[k]), m_probe.years)
                         + OtherPoints(PerformanceOf(m_out.result[k]), m_probe.project_tags,
                                       m_probe.years))

\* Days back of the service start of a result
DaysBack(r) == TODAY - PerformanceOf(r).service_start.day

\* C16: a table of eleven records was ranked, one is left out, and the ten
\* returned hold a record that started between N and N + 1 years back and one
\* that started between N + 1 and 2N years back.
C16_Witness ==
    /\ PerformancesRanked
    /\ Len(registry.performances) = 11
    /\ Len(m_out.result) = 10
    /\ \E k \in 1..Len(m_out.result) :
            /\ DaysBack(m_out.result[k]) > m_probe.years * YEAR_DAYS
            /\ DaysBack(m_out.result[k]) <= (m_probe.years + 1) * YEAR_DAYS
    /\ \E k \in 1..Len(m_out.result) :
            /\ DaysBack(m_out.result[k]) > (m_probe.years + 1) * YEAR_DAYS
            /\ DaysBack(m_out.result[k]) <= 2 * m_probe.years * YEAR_DAYS

\* auto_match_all_sections has returned
SectionsMatched == m_out # None /\ m_out.op = "auto_match_all_sections"

\* No identifier is in the links more than once
LinkedOnce(p) ==
    /\ Cardinality(PersonnelIds(p)) = Len(p.bid_personnel)
    /\ Cardinality(PerformanceIds(p)) = Len(p.bid_performances)

\* The attachment bindings and the sets of links of two states of a project
\* are the same
SameBindings(p, q) ==
    /\ \A k \in 1..Len(p.sections) :
            p.sections[k].attachment_id = q.sections[k].attachment_id
    /\ PersonnelIds(p) = PersonnelIds(q)
    /\ PerformanceIds(p) = PerformanceIds(q)

\* C17: after any number of consecutive calls of auto_match_all_sections no
\* personnel identifier and no performance identifier is linked to the
\* project more than once, and a second call leaves every section's
\* attachment binding and the sets of personnel and performance links as the
\* first call left them.
C17_Idempotent ==
    SectionsMatched =>
        /\ (LinkedOnce(m_out.before) => LinkedOnce(m_out.after))
        /\ (m_out.consecutive => SameBindings(m_out.before, m_out.after))

\* C17, the part that holds: the second call adds no link, binds no section
\* and leaves the project as the first call left it.
C17_SecondCallSame ==
    SectionsMatched /\ m_out.consecutive =>
        /\ m_out.after = m_out.before
        /\ m_out.result.matched_sections = 0

\* C17, the part that holds for projects with at most one section of each
\* type: no identifier is linked more than once.
C17_OnceWhenTypesDiffer ==
    SectionsMatched
    /\ LinkedOnce(m_out.before)
    /\ (\A j, k \in 1..Len(m_out.before.sections) :
            j # k => m_out.before.sections[j].section_type
                        # m_out.before.sections[k].section_type)
    => LinkedOnce(m_out.after)

\* The sections that had no binding before the call and have one after it
NewlyBound(before, after) ==
    {k \in 1..Len(before.sections) :
        before.sections[k].attachment_id = 0 /\ after.sections[k].attachment_id # 0}

\* C18: auto_match_all_sections leaves a section that already has an
\* attachment binding as it was; the matched count it returns is the number
\* of sections that were unbound before the call and received a binding in
\* it, and the total is the number of sections of the project; five unbound
\* sections with one record of each category give matched = total = 5.
C18_BoundSectionsKept ==
    SectionsMatched =>
        /\ Len(m_out.after.sections) = Len(m_out.before.sections)
        /\ \A k \in 1..Len(m_out.before.sections) :
                m_out.before.sections[k].attachment_id # 0
                => m_out.after.sections[k] = m_out.before.sections[k]
        /\ m_out.result.matched_sections
             = Cardinality(NewlyBound(m_out.before, m_out.after))
        /\ m_out.result.total_sections = Len(m_out.before.sections)
        /\ (m_out.before = FIVE_PROJECT /\ m_out.registry = FIVE_REGISTRY
            => m_out.result = [matched_sections |-> 5, total_sections |-> 5])

\* C18: a call has returned for a project that had a section bound by hand
\* for which the registry holds a candidate, and an unbound section that the
\* call bound.
C18_Witness ==
    /\ SectionsMatched
    /\ \E j, k \in 1..Len(m_out.before.sections) :
            /\ m_out.before.sections[j].attachment_id # 0
            /\ auto_match_section(m_out.registry, m_out.before.sections[j],
                                  m_out.before.industry_tags).attachment # None
            /\ k \in NewlyBound(m_out.before, m_out.after)
    /\ m_out.result.matched_sections < m_out.result.total_sections

(***************************************************************************)
(* Claims about the matching of the requirements (SpecRequirements)        *)
(***************************************************************************)
\* match_requirements_to_sections has returned for a result of
\* parse_requirements_file
RequirementsMatched == section_requirements # None
MatchedDict == section_requirements.matched

\* The score of block b of the parsed file for a section
BlockScore(b, sec) ==
    score_block_match(parse_out.result.requirement_blocks[b], sec.section_name,
                      sec.section_type)

\* The lines of a text after the first n
LinesAfter(text, n) == {text[i] : i \in (n + 1)..Len(text)}

\* A block of score above 2 that no block outscores, and that holds the lines
AppendedFromBest(lines, sec) ==
    \E b \in 1..Len(parse_out.result.requirement_blocks) :
        /\ BlockScore(b, sec) > 2
        /\ \A c \in 1..Len(parse_out.result.requirement_blocks) :
              BlockScore(c, sec) <= BlockScore(b, sec)
        /\ \A line \in lines :
              \E i \in 1..Len(BlockLines(parse_out.result.requirement_blocks[b])) :
                  BlockLines(parse_out.result.requirement_blocks[b])[i] = line

\* The text has at most 20 lines; it starts with the lines of the line-scan,
\* at most 10; what follows them is there only from a highest-scoring block
\* of score above 2
TextAsStated(text, scan, sec) ==
    /\ Len(text) <= 20
    /\ Len(scan) <= 10
    /\ Len(scan) <= Len(text) /\ SubSeq(text, 1, Len(scan)) = scan
    /\ (Len(text) > Len(scan) => AppendedFromBest(LinesAfter(text, Len(scan)), sec))

\* The section whose text the key holds
WriterOf(key) == fmt_sections[LastWriter(fmt_sections, key)]

\* C19: for every result of parse_requirements_file and every section, the
\* text match_requirements_to_sections returns for the section has at most 20
\* lines, of which at most 10 come from the line-scan; lines of a block are
\* appended only when the block scores above 2 and is the highest-scoring one.
C19_TextBounded ==
    RequirementsMatched =>
        \A key \in DOMAIN MatchedDict :
            TextAsStated(MatchedDict[key],
                         match_requirements_to_section(parse_out.result.full_text,
                                                       WriterOf(key).section_name,
                                                       WriterOf(key).section_type),
                         WriterOf(key))

\* C19: a text of 20 lines was returned, 10 of them from the line-scan and 10
\* from the block, for a file whose block holds more lines than that.
C19_Witness ==
    /\ RequirementsMatched
    /\ \E key \in DOMAIN MatchedDict :
            /\ Len(MatchedDict[key]) = 20
            /\ Len(match_requirements_to_section(parse_out.result.full_text,
                                                 WriterOf(key).section_name,
                                                 WriterOf(key).section_type)) = 10
            /\ Len(BlockLines(parse_out.result.requirement_blocks[1])) > 20

\* C20: the result is indexed by both keys for every section: the text under
\* a section's name is the text matched for that section, and the text under
\* its type is a text matched for a section of that type.
C20_IndexedByName ==
    RequirementsMatched /\ parse_out.result.success =>
        \A k \in 1..Len(fmt_sections) :
            /\ fmt_sections[k].section_name \in DOMAIN MatchedDict
            /\ MatchedDict[fmt_sections[k].section_name]
                 = SectionText(parse_out.result, fmt_sections[k])
            /\ fmt_sections[k].section_type \in DOMAIN MatchedDict
            /\ \E j \in 1..Len(fmt_sections) :
                  /\ fmt_sections[j].section_type = fmt_sections[k].section_type
                  /\ MatchedDict[fmt_sections[k].section_type]
                       = SectionText(parse_out.result, fmt_sections[j])

\* C20, the part that holds: both keys of every section are in the result,
\* and each holds the text matched for the last section of the list that has
\* the key as its name or as its type.
C20_LastWriterWins ==
    RequirementsMatched /\ parse_out.result.success =>
        \A k \in 1..Len(fmt_sections) :
            \A key \in {fmt_sections[k].section_name, fmt_sections[k].section_type} :
                /\ key \in DOMAIN MatchedDict
                /\ \E j \in k..Len(fmt_sections) :
                      /\ key \in {fmt_sections[j].section_name, fmt_sections[j].section_type}
                      /\ MatchedDict[key] = SectionText(parse_out.result, fmt_sections[j])

(***************************************************************************)
(* Claims about the ranking of the personnel (SpecMatch)                   *)
(***************************************************************************)
PersonnelRanked == m_out # None /\ m_out.op = "match_personnel"
PersonOf(item) == registry.personnel[item.id]

\* The bucket C21 states for a person: project lead when the position names a
\* project lead, otherwise technical lead when it names one, otherwise general
StatedBucket(p) ==
    IF ContainsAny(Lower(p.position), {<<"u9879", "u76ee", "u8d1f", "u8d23">>,
                                       <<"u9879", "u76ee", "u7ecf", "u7406">>})
    THEN "project_leader"
    ELSE IF ContainsAny(Lower(p.position), {<<"u6280", "u672f", "u8d1f", "u8d23">>,
                                            <<"u6280", "u672f", "u603b", "u76d1">>})
    THEN "tech_leader"
    ELSE "members"

\* The tags of a comma-separated text as C21 counts them: the pieces between
\* two commas (or an end of the text), without the white space around them,
\* the empty ones left out, two tags that differ by the case of their letters
\* being one tag
StatedTags(s) ==
    {Lower(Strip(SubSeq(s, i, j))) :
        <<i, j>> \in {<<a, b>> \in (1..Len(s)) \X (1..Len(s)) :
                        /\ a <= b
                        /\ a = 1 \/ s[a - 1] = ","
                        /\ b = Len(s) \/ s[b + 1] = ","
                        /\ \A m \in a..b : s[m] # ","}} \ {<<>>}

\* The score C21 states
StatedPersonScore(p, project_tags) ==
    Min2(100,
         (IF StatedBucket(p) = "members" THEN 0 ELSE 30)
         + TitlePoints(Lower(p.title))
         + 15 * Cardinality(StatedTags(project_tags) \cap StatedTags(p.skills))
         + Min2(5 * Len(p.certificates), 20))

BucketIds(bucket) == {bucket[k].id : k \in 1..Len(bucket)}
PersonsOfRole(role) ==
    {k \in 1..Len(registry.personnel) : StatedBucket(registry.personnel[k]) = role}

\* One bucket of the result: the persons of its role only, each once, as many
\* as the cap allows, in non-increasing order of the stated score, no person
\* left out scoring more than one that is in
BucketAsStated(bucket, role, cap) ==
    /\ BucketIds(bucket) \subseteq PersonsOfRole(role)
    /\ Cardinality(BucketIds(bucket)) = Len(bucket)
    /\ Len(bucket) = Min2(cap, Cardinality(PersonsOfRole(role)))
    /\ \A k \in 1..Len(bucket) :
            bucket[k].score = StatedPersonScore(PersonOf(bucket[k]), m_probe.project_tags)
    /\ \A k \in 1..(Len(bucket) - 1) : bucket[k].score >= bucket[k + 1].score
    /\ \A i \in PersonsOfRole(role) \ BucketIds(bucket) : \A k \in 1..Len(bucket) :
            StatedPersonScore(registry.personnel[i], m_probe.project_tags) <= bucket[k].score

\* C21: match_personnel puts every person in exactly one of the three buckets
\* before capping (project lead, otherwise technical lead, otherwise general)
\* and returns at most 3, 3 and 10 entries, each bucket in non-increasing
\* order of score and holding the highest-scored persons of its role; a score
\* is 30 for a lead role + 20 or 10 for the title + 15 per tag in common +
\* min(5 x certificates, 20), capped at 100.
C21_Buckets ==
    PersonnelRanked =>
        /\ BucketAsStated(m_out.result.project_leader, "project_leader", 3)
        /\ BucketAsStated(m_out.result.tech_leader, "tech_leader", 3)
        /\ BucketAsStated(m_out.result.members, "members", 10)

\* Every cap cuts a bucket, a lead with a tag in common is ranked, the first
\* general entry scores more than the last, and a person is ranked whose one
\* tag in common differs from the project's by the case of a letter outside
\* ASCII
C21_Witness ==
    /\ PersonnelRanked
    /\ Cardinality(PersonsOfRole("project_leader")) > 3
    /\ Cardinality(PersonsOfRole("tech_leader")) > 3
    /\ Cardinality(PersonsOfRole("members")) > 10
    /\ Len(m_out.result.project_leader) = 3
    /\ Len(m_out.result.tech_leader) = 3
    /\ Len(m_out.result.members) = 10
    /\ m_probe.project_tags # <<>>
    /\ m_out.result.members[1].score > m_out.result.members[10].score
    /\ \E k \in 1..3 : m_out.result.project_leader[k].score >= 45
    /\ m_probe.project_tags = ACCENT_TAGS
    /\ \E k \in 1..3 :
           /\ PersonOf(m_out.result.project_leader[k]).skills = <<"u00c9", ",", "x">>
           /\ m_out.result.project_leader[k].score
                  = 30 + 15 + 5 * Len(PersonOf(m_out.result.project_leader[k]).certificates)
                    + TitlePoints(PersonOf(m_out.result.project_leader[k]).title)

(***************************************************************************)
(* Claims about auto_match_section (SpecMatch)                             *)
(***************************************************************************)
SectionMatched == m_out # None /\ m_out.op = "auto_match_section"

\* What match_attachment gives for the section of the probe, and what its two
\* passes found before the cut
Candidates ==
    match_attachment(registry.attachments, m_probe.section.section_type,
                     CategoryOf(m_probe.section.section_type))
FoundByPasses ==
    BothPasses(ExactResults(registry.attachments, CategoryOf(m_probe.section.section_type)),
               registry.attachments, m_probe.section.section_type,
               CategoryOf(m_probe.section.section_type))
RequirementKeywords == parse_requirement_keywords(m_probe.section.requirement_text)

\* The number of requirement keywords found in a display name
KeywordsIn(name) ==
    Cardinality({k \in 1..Len(RequirementKeywords) :
                    Contains(Lower(name), Lower(RequirementKeywords[k]))})

\* The score C22 states for a candidate
StatedRescore(c) ==
    IF Len(RequirementKeywords) = 0 THEN c.score
    ELSE Min2(100, c.score + 5 * KeywordsIn(c.name))

\* C22: when the section has requirement keywords every candidate's score
\* becomes min(100, score + 5 x number of requirement keywords found in its
\* display name), which never lowers a score; the attachment returned for
\* binding is a candidate of the maximum re-scored value; the candidates are
\* the at most 5 highest-scored results of match_attachment in
\* non-increasing order.
C22_Rescored ==
    SectionMatched =>
        /\ Len(Candidates) = Min2(5, Len(FoundByPasses))
        /\ \A k \in 1..(Len(Candidates) - 1) : Candidates[k].score >= Candidates[k + 1].score
        /\ \A k \in 1..Len(Candidates) : \E j \in 1..Len(FoundByPasses) :
                FoundByPasses[j] = Candidates[k]
        /\ \A j \in 1..Len(FoundByPasses) :
                (\A k \in 1..Len(Candidates) : Candidates[k].id # FoundByPasses[j].id)
                    => \A k \in 1..Len(Candidates) :
                            FoundByPasses[j].score <= Candidates[k].score
        /\ \A k \in 1..Len(Candidates) : StatedRescore(Candidates[k]) >= Candidates[k].score
        /\ (Len(Candidates) = 0) = (m_out.result.attachment = None)
        /\ Len(Candidates) > 0 =>
                /\ \E k \in 1..Len(Candidates) :
                        /\ m_out.result.attachment.id = Candidates[k].id
                        /\ m_out.result.attachment.score = StatedRescore(Candidates[k])
                /\ \A k \in 1..Len(Candidates) :
                        StatedRescore(Candidates[k]) <= m_out.result.attachment.score

\* The keywords lift a candidate over the one match_attachment put first
C22_Witness ==
    /\ SectionMatched
    /\ Len(RequirementKeywords) > 1
    /\ Len(Candidates) > 1
    /\ m_out.result.attachment # None
    /\ m_out.result.attachment.id # Candidates[1].id
    /\ m_out.result.attachment.score > Candidates[1].score
    /\ m_out.result.attachment.score < 100

\* Six records are found, the sixth by score has the keywords in its name and
\* is no candidate
C22_WitnessCut ==
    /\ SectionMatched
    /\ Len(FoundByPasses) = 6
    /\ Len(Candidates) = 5
    /\ Len(RequirementKeywords) = 4
    /\ \E j \in 1..6 : /\ KeywordsIn(FoundByPasses[j].name) = 3
                        /\ \A k \in 1..5 : Candidates[k].id # FoundByPasses[j].id

(***************************************************************************)
(* Claims about placeholders and runs (SpecFill)                           *)
(***************************************************************************)
\* The bracket placeholders of a text: the matches BRACKET_PLACEHOLDER finds
\* from index i on, each from its opening to its closing bracket
RECURSIVE PlaceholdersFrom(_, _)
PlaceholdersFrom(s, i) ==
    IF i > Len(s) THEN <<>>
    ELSE IF BracketMatchAt(s, i) # 0
         THEN <<[from |-> i, to |-> BracketMatchAt(s, i)]>>
              \o PlaceholdersFrom(s, BracketMatchAt(s, i) + 1)
         ELSE PlaceholdersFrom(s, i + 1)
PlaceholdersOf(runs) == PlaceholdersFrom(ParagraphText(runs), 1)

\* The run that holds the character at index pos of the paragraph's text
RunAt(runs, pos) ==
    CHOOSE k \in 1..Len(runs) :
        /\ Len(ParagraphText(SubSeq(runs, 1, k))) >= pos
        /\ Len(ParagraphText(SubSeq(runs, 1, k - 1))) < pos

SpansRuns(runs, m) == RunAt(runs, m.from) # RunAt(runs, m.to)
HoldsPlaceholder(runs, k) ==
    \E j \in 1..Len(PlaceholdersOf(runs)) :
        /\ RunAt(runs, PlaceholdersOf(runs)[j].from) <= k
        /\ RunAt(runs, PlaceholdersOf(runs)[j].to) >= k

\* The placeholder names an entry of the dictionary
Resolvable(runs, m) ==
    ~Unresolvable(BracketKey(ParagraphText(runs), m.from, m.to))

\* The first run holds the text, the other runs are empty
MergedInto(runs, text) ==
    /\ Len(runs) >= 1
    /\ runs[1] = text
    /\ \A k \in 2..Len(runs) : runs[k] = <<>>

\* C23, part 1: when a resolvable bracket placeholder of the paragraph spans
\* two or more runs, the first run's text is afterwards the joined text of
\* the runs with every bracket placeholder substituted, and every other run
\* is empty.
C23_SpanningMerged ==
    Substituted
    /\ (\E j \in 1..Len(PlaceholdersOf(para.runs)) :
            /\ SpansRuns(para.runs, PlaceholdersOf(para.runs)[j])
            /\ Resolvable(para.runs, PlaceholdersOf(para.runs)[j]))
        => /\ Len(fill_out.runs) = Len(para.runs)
           /\ MergedInto(fill_out.runs,
                         Substitute(ParagraphText(para.runs), para.project_data))

\* C23, part 2: when every placeholder lies inside a single run, the number
\* of runs is unchanged and the text of each run that holds no placeholder is
\* unchanged.
C23_SingleRunKept ==
    Substituted
    /\ (\A j \in 1..Len(PlaceholdersOf(para.runs)) :
            ~SpansRuns(para.runs, PlaceholdersOf(para.runs)[j]))
        => /\ Len(fill_out.runs) = Len(para.runs)
           /\ \A k \in 1..Len(para.runs) :
                  ~HoldsPlaceholder(para.runs, k) => fill_out.runs[k] = para.runs[k]

\* C23: cross-run substitution merges into the first run when a resolvable
\* placeholder spans runs, and leaves the runs without a placeholder as they
\* are when every placeholder lies inside one run.
C23_CrossRun == C23_SpanningMerged /\ C23_SingleRunKept

\* No opening bracket is left unclosed before a placeholder: the placeholders
\* found in each run alone are placeholders of the paragraph's text
RunOffset(runs, k) == Len(ParagraphText(SubSeq(runs, 1, k - 1)))
RunsAgree(runs) ==
    \A k \in 1..Len(runs) : \A j \in 1..Len(PlaceholdersFrom(runs[k], 1)) :
        \E n \in 1..Len(PlaceholdersOf(runs)) :
            /\ PlaceholdersOf(runs)[n].from
                    = RunOffset(runs, k) + PlaceholdersFrom(runs[k], 1)[j].from
            /\ PlaceholdersOf(runs)[n].to
                    = RunOffset(runs, k) + PlaceholdersFrom(runs[k], 1)[j].to

\* C23, part 1, for the paragraphs whose runs hold no placeholder behind an
\* unclosed opening bracket
C23_SpanningMergedWhenRunsAgree ==
    Substituted
    /\ RunsAgree(para.runs)
    /\ (\E j \in 1..Len(PlaceholdersOf(para.runs)) :
            /\ SpansRuns(para.runs, PlaceholdersOf(para.runs)[j])
            /\ Resolvable(para.runs, PlaceholdersOf(para.runs)[j]))
        => /\ Len(fill_out.runs) = Len(para.runs)
           /\ MergedInto(fill_out.runs,
                         Substitute(ParagraphText(para.runs), para.project_data))

\* C28: a bracket placeholder whose key is empty after trimming, such as
\* '[ ]', is never resolved to a field value: _resolve_placeholder returns it
\* in bracketed form, like every other key that names no dictionary entry.
C28_EmptyKeyKept ==
    Resolved /\ Strip(resolved.key) = <<>>
        => resolved.value = Bracketed(Strip(resolved.key))

\* What holds for the empty key: it is held by every dictionary key, and the
\* value is that of the first entry, the company name
C28_EmptyKeyIsCompanyName ==
    Resolved /\ Strip(resolved.key) = <<>>
        => /\ FuzzyEntries(Strip(resolved.key)) = 1..Len(PLACEHOLDER_FIELD_MAP)
           /\ resolved.value = para.project_data["company_name"]

(***************************************************************************)
(* Claims about the fill steps (SpecSteps)                                 *)
(***************************************************************************)
TableFilled ==
    t_out # None /\ t_probe.op \in {"fill_personnel_table", "fill_performance_table"}

\* The header words of the table of the probe, and the index h of its header
\* row, from 0: the first row that holds a header word, the first row when
\* none does
ProbeWords ==
    IF t_probe.op = "fill_personnel_table" THEN PERSONNEL_HEADER_KEYS
    ELSE PERFORMANCE_HEADER_KEYS
HeaderIndex ==
    IF HeaderRows(t_probe.rows, ProbeWords) = {} THEN 0
    ELSE LeastOf(HeaderRows(t_probe.rows, ProbeWords)) - 1

\* The values of record i, from 0: the sequence number i + 1 first
RecordValues(i) ==
    IF t_probe.op = "fill_personnel_table"
    THEN <<Digits(i + 1), t_probe.list[i + 1].record.name, t_probe.list[i + 1].role,
           t_probe.list[i + 1].record.title, t_probe.list[i + 1].record.phone>>
    ELSE <<Digits(i + 1), t_probe.list[i + 1].record.project_name,
           t_probe.list[i + 1].record.client_name,
           AmountText(t_probe.list[i + 1].record.contract_amount),
           PeriodText(t_probe.list[i + 1].record)>>

\* The row at index j (from 0) of a table
RowAt(rows, j) == rows[j + 1]
CellText(cell) == Concat(cell)

\* C24: for a table of r >= 2 rows whose header row is at index h with
\* h + 1 < r and a list of n >= 1 records, the table has max(r, h + 1 + n)
\* rows after the fill; for every i < n row h + 1 + i holds record i's values
\* in its first min(column count, 5) cells; the rows at index <= h and the
\* existing rows at index >= h + 1 + n are unchanged.
C24_TableFill ==
    (/\ TableFilled
     /\ Len(t_probe.rows) >= 2
     /\ HeaderIndex + 1 < Len(t_probe.rows)
     /\ Len(t_probe.list) >= 1)
        => /\ Len(t_out.rows) = Max2(Len(t_probe.rows), HeaderIndex + 1 + Len(t_probe.list))
           /\ \A i \in 0..(Len(t_probe.list) - 1) :
                  \A c \in 1..Min2(Len(RowAt(t_out.rows, HeaderIndex + 1 + i)), 5) :
                      CellText(RowAt(t_out.rows, HeaderIndex + 1 + i)[c]) = RecordValues(i)[c]
           /\ \A j \in 0..HeaderIndex : RowAt(t_out.rows, j) = RowAt(t_probe.rows, j)
           /\ \A j \in (HeaderIndex + 1 + Len(t_probe.list))..(Len(t_probe.rows) - 1) :
                  RowAt(t_out.rows, j) = RowAt(t_probe.rows, j)

\* Three persons went into a table of four rows with its header in the second
\* row: two rows were there, the third is new, and a row of six cells is
\* among the filled ones
C24_Witness ==
    /\ TableFilled
    /\ t_probe.op = "fill_personnel_table"
    /\ Len(t_probe.rows) = 4
    /\ HeaderIndex = 1
    /\ Len(t_probe.list) = 3
    /\ Len(t_out.rows) = 5
    /\ Len(RowAt(t_out.rows, 3)) = 6
    /\ CellText(RowAt(t_out.rows, 4)[1]) = <<"3">>

\* One performance went into a table of four rows with no header word: the
\* two last rows are as they were
C24_WitnessKept ==
    /\ TableFilled
    /\ t_probe.op = "fill_performance_table"
    /\ HeaderRows(t_probe.rows, ProbeWords) = {}
    /\ Len(t_probe.rows) = 4
    /\ Len(t_probe.list) = 1
    /\ Len(t_out.rows) = 4
    /\ t_out.rows # t_probe.rows

TextInserted == t_out # None /\ t_probe.op = "insert_text_at_position"

\* The lines of the text of the probe that hold more than white space, each
\* without the white space around it
StatedLines ==
    SelectSeq([i \in 1..Len(SplitOn(t_probe.text, NEWLINE)) |->
                  Strip(SplitOn(t_probe.text, NEWLINE)[i])],
              LAMBDA line : line # <<>>)

\* The reference index is inside the document: it is the index of one of
\* its paragraphs
ReferenceInside ==
    /\ t_probe.after_para_index >= 0
    /\ t_probe.after_para_index < Cardinality({k \in 1..Len(t_probe.body) :
                                                  t_probe.body[k].kind = "p"})

\* The place in the body of the reference paragraph
ReferencePlace ==
    CHOOSE k \in 1..Len(t_probe.body) :
        /\ t_probe.body[k].kind = "p"
        /\ Cardinality({j \in 1..(k - 1) : t_probe.body[j].kind = "p"})
               = t_probe.after_para_index

\* C25: _insert_text_at_position with a text of k non-empty lines and a
\* reference index inside the document inserts exactly k new paragraphs
\* directly after the reference paragraph, in the order of the lines, each
\* holding its line with the bracket placeholders substituted; the elements
\* that were there keep their order and their text.
C25_TextInserted ==
    TextInserted /\ ReferenceInside
        => /\ Len(t_out.body) = Len(t_probe.body) + Len(StatedLines)
           /\ \A j \in 1..ReferencePlace : t_out.body[j] = t_probe.body[j]
           /\ \A i \in 1..Len(StatedLines) :
                  /\ t_out.body[ReferencePlace + i].kind = "p"
                  /\ Concat(t_out.body[ReferencePlace + i].runs)
                         = Substitute(StatedLines[i], t_probe.project_data)
           /\ \A j \in (ReferencePlace + 1)..Len(t_probe.body) :
                  t_out.body[j + Len(StatedLines)] = t_probe.body[j]

\* Three lines, one of them with a placeholder that is resolved, and a blank
\* line went in after the second paragraph, before the table that follows it
C25_Witness ==
    /\ TextInserted
    /\ t_probe.after_para_index = 1
    /\ Len(t_probe.body) = 3
    /\ t_probe.body[3].kind = "tbl"
    /\ Len(SplitOn(t_probe.text, NEWLINE)) = 4
    /\ Len(StatedLines) = 3
    /\ Len(t_out.body) = 6
    /\ t_out.body[6] = t_probe.body[3]
    /\ Concat(t_out.body[4].runs)
           = <<"[", "u9644", "u4ef6", "]">> \o t_probe.project_data["company_name"]

(***************************************************************************)
(* Claims about the place of a section in pass 2 (SpecFusion)              *)
(***************************************************************************)
\* A section was handled whose heading the template holds: its anchor is the
\* index of a paragraph of the template
HeadingInTemplate(sec_info) ==
    /\ sec_info.para_index > 0
    /\ sec_info.para_index < Len(Paragraphs(job.template.body))

\* The place in a body of the template paragraph with index idx
PlaceOfParagraph(body, idx) ==
    CHOOSE k \in 1..Len(body) :
        body[k].id = BodyIndexOfPara(job.template.body, idx)

\* The anchors of the stored sections that lie behind idx in the template
AnchorsBehind(idx) ==
    {job.sections_db[i].format_para_index.index :
        i \in {j \in 1..Len(job.sections_db) :
                  /\ job.sections_db[j].format_para_index # None
                  /\ job.sections_db[j].format_para_index.index > idx
                  /\ job.sections_db[j].format_para_index.index
                         < Len(Paragraphs(job.template.body))}}

\* The body after is the body before with new elements behind place p
InsertedBehind(before, after, p) ==
    /\ Len(after) > Len(before)
    /\ SubSeq(after, 1, p) = SubSeq(before, 1, p)
    /\ SubSeq(after, p + 1 + Len(after) - Len(before), Len(after))
           = SubSeq(before, p + 1, Len(before))

\* Paragraphs were put in for the section handled last
TextPutIn ==
    /\ handled # None
    /\ filled # Raised
    /\ FreeText(handled.sec_info)
    /\ HeadingInTemplate(handled.sec_info)
    /\ Len(filled.body) > Len(handled.before)

\* C26: every paragraph fill_template inserts for a free-text section lies
\* after the heading of that section and before the heading of the next
\* section, also when the heading is directly followed by the next heading.
C26_InsertedInSection ==
    TextPutIn =>
        \E p \in 1..Len(handled.before) :
            /\ InsertedBehind(handled.before, filled.body, p)
            /\ p >= PlaceOfParagraph(handled.before, handled.sec_info.para_index)
            /\ \A idx \in AnchorsBehind(handled.sec_info.para_index) :
                   p < PlaceOfParagraph(handled.before, idx)

\* What holds: the paragraphs are put directly behind the paragraph that
\* follows the heading, the first of the content area, whatever it is
C26_InsertedBehindContentStart ==
    TextPutIn =>
        /\ handled.sec_info.content_start < Len(Paragraphs(handled.before))
        /\ InsertedBehind(handled.before, filled.body,
                          BodyIndexOfPara(handled.before, handled.sec_info.content_start))

\* The stored section an info was built from, and whether it has a format
\* anchor
StoredSection(sec_info) == job.sections_db[sec_info.section_name]
Unanchored(sec_info) == StoredSection(sec_info).format_para_index = None

\* The infos generate_filled_document builds, and those it would build for
\* the anchored sections alone
InfosBuilt == SectionsInfo(job.sections_db, Len(Paragraphs(job.template.body)))
InfosOfAnchored ==
    SectionsInfo(SelectSeq(job.sections_db, LAMBDA sec : sec.format_para_index # None),
                 Len(Paragraphs(job.template.body)))
InfoNamed(infos, name) ==
    infos[CHOOSE k \in 1..Len(infos) : infos[k].section_name = name]

\* C30, part 1: pass 2 makes no change to the document for a stored section
\* that has no format anchor.
C30_UnanchoredLeftAlone ==
    (handled # None /\ filled # Raised /\ Unanchored(handled.sec_info))
        => filled.body = handled.before

\* C30, part 2: the sections without an anchor do not alter the content range
\* computed for an anchored section.
C30_RangesOfAnchoredKept ==
    (filled # None /\ filled # Raised)
        => \A k \in 1..Len(InfosBuilt) :
               ~Unanchored(InfosBuilt[k])
                   => /\ InfosBuilt[k].content_start
                            = InfoNamed(InfosOfAnchored, InfosBuilt[k].section_name).content_start
                      /\ InfosBuilt[k].content_end
                            = InfoNamed(InfosOfAnchored, InfosBuilt[k].section_name).content_end

\* C30: a stored section without a format anchor is a missing target: pass 2
\* leaves the document as it is for that section, and the section does not
\* alter the content range of any anchored section.
C30_UnanchoredIsMissingTarget == C30_UnanchoredLeftAlone /\ C30_RangesOfAnchoredKept

\* What holds: a section without an anchor is handled as a section whose
\* heading is the first paragraph of the document
C30_UnanchoredIsAnchoredAtZero ==
    (handled # None /\ filled # Raised /\ Unanchored(handled.sec_info))
        => /\ handled.sec_info.para_index = 0
           /\ handled.sec_info.content_start = 1

\* ---------------------------------------------------------------------------
\* Claims about the segmentation of the requirements (SpecRequirements)
\* ---------------------------------------------------------------------------

RequirementsParsed ==
    /\ parse_out # None /\ parse_out.op = "parse_requirements_file"
    /\ parse_out.result # Raised /\ parse_out.result.success

\* The paragraphs of the file, trimmed, without the empty ones
TrimmedLines(body) ==
    LET paras == Paragraphs(body)
        trimmed == [i \in 1..Len(paras) |-> Strip(paras[i].text)]
    IN SelectSeq(trimmed, LAMBDA l : Len(l) > 0)

\* The title of a block, when it has one, followed by its content lines
ListedLines(block) ==
    (IF Len(block.title) > 0 THEN <<block.title>> ELSE <<>>) \o block.content
ListedBlocks(blocks) == Concat([k \in 1..Len(blocks) |-> ListedLines(blocks[k])])

\* The content of a block as the code joins it
RECURSIVE JoinedContent(_)
JoinedContent(content_lines) ==
    IF Len(content_lines) = 0 THEN <<>>
    ELSE IF Len(content_lines) = 1 THEN content_lines[1]
    ELSE content_lines[1] \o <<NEWLINE>> \o JoinedContent(Tail(content_lines))

BlocksAsStated(blocks, lines) ==
    /\ ListedBlocks(blocks) = lines
    /\ \A k \in 1..Len(blocks) :
          /\ Len(blocks[k].title) > 0 => IsTitle(blocks[k].title)
          /\ Len(blocks[k].title) = 0 => k = 1 /\ Len(blocks[k].content) > 0
          /\ \A i \in 1..Len(blocks[k].content) : ~IsTitle(blocks[k].content[i])
          /\ blocks[k].keywords =
                 {kw \in TaxonomyKeywords :
                     \/ Contains(blocks[k].title, kw)
                     \/ Contains(JoinedContent(blocks[k].content), kw)}

\* C27: every heading-like line closes the current block and opens a block
\* titled by it, the lines before the first heading form one block with an
\* empty title, the titles and content lines of the blocks listed in order
\* are exactly the non-empty trimmed lines of the input, and the keywords of
\* a block are exactly the taxonomy keywords found in its title or content.
C27_Segmentation ==
    RequirementsParsed
        => BlocksAsStated(parse_out.result.requirement_blocks, TrimmedLines(tfile.body))

\* A file with white space to trim and to skip, lines before the first
\* title, two titles, and a keyword in the content of a block
C27_Witness ==
    /\ RequirementsParsed
    /\ Len(TrimmedLines(tfile.body)) < Len(Paragraphs(tfile.body))
    /\ \E i \in 1..Len(tfile.body) : tfile.body[i].text # Strip(tfile.body[i].text)
                                       /\ Len(Strip(tfile.body[i].text)) > 0
    /\ LET blocks == parse_out.result.requirement_blocks
       IN /\ Len(blocks) = 3
          /\ Len(blocks[1].title) = 0 /\ blocks[1].content = <<QUOTE \o <<" ", "a">> >>
          /\ blocks[2].title = <<"u4e00", "u3001">> \o BID_LETTER
          /\ blocks[2].content = << <<"C", "M", "A">> >>
          /\ <<"C", "M", "A">> \in blocks[2].keywords
          /\ blocks[3].content = <<>>

\* ---------------------------------------------------------------------------
\* Claims about the category of the attachment that is bound (SpecMatch)
\* ---------------------------------------------------------------------------

\* The records of the registry in the category of the section of the probe
ExactRecords ==
    SelectSeq(registry.attachments,
              LAMBDA a : a.category = CategoryOf(m_probe.section.section_type))

\* The attachment auto_match_section returns is a record of that category
ReturnsExact ==
    /\ m_out.result.attachment # None
    /\ \E k \in 1..Len(ExactRecords) : ExactRecords[k].id = m_out.result.attachment.id

\* C29: when the registry holds a record in the exact category of the
\* section, the attachment auto_match_section returns is a record of that
\* category.
C29_ExactFirst ==
    (SectionMatched /\ Len(ExactRecords) > 0) => ReturnsExact

\* C29 as the code has it: the attachment returned is a record of the exact
\* category when the registry holds three or more of them, or holds one that
\* is not expired and the section has no requirement keywords; otherwise a
\* record of another category found by pass 2 may come first.
C29_ExactFirstWhenUnexpired ==
    (/\ SectionMatched
     /\ \/ Len(ExactRecords) >= 3
        \/ /\ \E k \in 1..Len(ExactRecords) : ~Expired(ExactRecords[k])
           /\ Len(RequirementKeywords) = 0)
        => ReturnsExact

\* A record of the category that is not expired is returned although pass 2
\* found a record of another category with the points of the name, the tags
\* and the file
C29_Witness ==
    /\ SectionMatched
    /\ Len(ExactRecords) \in 1..2
    /\ \E k \in 1..Len(ExactRecords) : ~Expired(ExactRecords[k])
    /\ Len(RequirementKeywords) = 0
    /\ \E k \in 1..Len(FoundByPasses) :
          /\ FoundByPasses[k].category # CategoryOf(m_probe.section.section_type)
          /\ FoundByPasses[k].score = 80
    /\ ReturnsExact
    /\ m_out.result.attachment.score = 80

\* Three records of the category, all expired, and a record of another
\* category that pass 2 would score higher
C29_WitnessThree ==
    /\ SectionMatched
    /\ Len(ExactRecords) = 3
    /\ \A k \in 1..3 : Expired(ExactRecords[k])
    /\ \E k \in 1..Len(registry.attachments) :
          /\ registry.attachments[k].category # CategoryOf(m_probe.section.section_type)
          /\ FuzzyScore(registry.attachments[k], m_probe.section.section_type) = 80
    /\ ReturnsExact
    /\ m_out.result.attachment.score <= 60
====
